---- MODULE Spec2Model ----
(***************************************************************************)
(* Model of the attendance agent (src/agent/agent_core): the AgentState    *)
(* record and its transition methods (state.py), the AgentApp controller   *)
(* (app.py: input poll, tick, popup lifecycle, heartbeat dispatch) and the *)
(* worker threads it starts for the break calls of api.py.                 *)
(*                                                                         *)
(* Everything AgentApp schedules with root.after() runs on the Tk main     *)
(* thread, so each callback is one atomic action.  The worker threads      *)
(* (threading.Thread(...).start()) interleave freely with the callbacks    *)
(* and with each other: one action per HTTP attempt or per statement of    *)
(* the thread body that touches shared state.                              *)
(*                                                                         *)
(* time.time() and time.monotonic() are one clock that advances in steps   *)
(* of ClockStep seconds; any number of callbacks may run between two clock *)
(* steps.  The code never uses a timestamp except to subtract it from the  *)
(* clock, so each timestamp field of AgentState holds its age, clock minus *)
(* timestamp: record_activity() makes the age 0, a clock step adds         *)
(* ClockStep to it.  Ages stop growing at MaxAge, above every threshold an *)
(* age is compared with in the callbacks modelled here.                    *)
(***************************************************************************)
EXTENDS Integers, Sequences, FiniteSets, TLC

\* ---------------------------------------------------------------- constants
IDLE_THRESHOLD_SEC == 180
HEARTBEAT_INTERVAL_SEC == 180
IDLE_CAP == 600
DRAIN_BATCH == 200
SUSPICIOUS_BELOW == 30
SYS_IDLE_SLACK == 5
BREAK_ATTEMPTS == 3

\* ------------------------------------------------------------------- bounds
ClockStep == 180
MaxAge == 180
MaxQueue == 1
MaxEpisodes == 2
MaxHbFailures == 2
MaxSubmits == 1
MaxBuffer == 3
MaxGap == 10000
TicksPerSec == 4
MaxTicks == 3
MaxEvents == 3
MaxBacklog == 405
MaxCrashes == 12
MaxOffline == 2
MaxBacklogOffline == 1
MaxPendingWorkers == 0
GapSteps == {1, IDLE_CAP, MaxGap}

EventKinds == {"move", "click", "scroll", "key"}
BREAK_REASONS == {"Official", "General", "Namaz"}
ReasonTexts == {"prayer"}
\* values calculate_activity_score can return, on both sides of the
\* SUSPICIOUS boundary
ScoreSamples == {29, 30}
\* values get_system_idle_seconds can return: failure, fresh input, long idle
SysIdleSamples == {-1, 0, IDLE_CAP}
NoScore == -1
\* An "HH:MM" string is the sequence of its four digits; None and "" are
\* the empty sequence.
None == <<>>
hhmm(h, m) == <<h \div 10, h % 10, m \div 10, m % 10>>

\* minutes of the day at which a tick may come: midnight, and the minutes
\* around 06:00, 09:00, 18:00 and 22:00
DayMinutes == {0, 359, 360, 539, 540, 1079, 1080, 1319, 1320, 1439}
\* what fetch_shift_info can hand back: nothing, a day shift, a night shift,
\* a start without an end
ShiftInfos ==
    { [shiftStart |-> None, shiftEnd |-> None, crossesMidnight |-> FALSE],
      [shiftStart |-> hhmm(9, 0), shiftEnd |-> hhmm(18, 0),
       crossesMidnight |-> FALSE],
      [shiftStart |-> hhmm(22, 0), shiftEnd |-> hhmm(6, 0),
       crossesMidnight |-> TRUE],
      [shiftStart |-> hhmm(9, 0), shiftEnd |-> None,
       crossesMidnight |-> FALSE] }

VARIABLES
    state,                  \* AgentApp.state : AgentState
    input_queue,            \* AgentApp._input_queue
    break_end_in_flight,    \* AgentApp._break_end_in_flight
    autoclicker_detected,   \* AgentApp._autoclicker_detected is non-empty
    popup,                  \* AgentApp._popup : the IdlePopup form
    threads,                \* the live worker threads
    episode,                \* number of popup episodes started so far
    calls,                  \* the break calls dispatched in the current episode
    unlock_fired,           \* ticks that took the unlock branch in this lock cycle
    op,                     \* what the last operation did
    buffer,                 \* OFFLINE_BUFFER_FILE: its lines, oldest first
    callers,                \* the threads running a break call of api.py
    flusher,                \* the thread running network.flush_buffer
    call,                   \* one break call of api.py, run on its own
    last_call,              \* the last whole call of a network.py function
    tracker,                \* AgentApp._tracker : ActivityTracker
    now,                    \* time.time(), in clock ticks
    recorded,               \* every sample the tracker was handed so far
    scored,                 \* what the last calculate_activity_score call did
    runner,                 \* run_with_auto_restart: its locals and position
    link,                   \* the offline breaks: what was dispatched for each
    recovery                \* recover_downtime: what it was given and what it did

app_vars == <<state, input_queue, break_end_in_flight, autoclicker_detected,
              popup, threads, episode, calls, unlock_fired, op>>

net_vars == <<buffer, callers, flusher, call, last_call>>

trk_vars == <<tracker, now, recorded, scored>>

run_vars == <<runner, link, recovery>>

vars == <<app_vars, net_vars, trk_vars, run_vars>>

\* ------------------------------------------------------------- AgentState
AgentState0 ==
    [ last_input_ts |-> 0,
      last_monotonic_ts |-> 0,
      popup_visible |-> FALSE,
      popup_allowed |-> TRUE,
      awaiting_first_activity |-> FALSE,
      break_active |-> FALSE,
      last_heartbeat_time |-> MaxAge,     \* timestamp 0.0: older than any age
      last_heartbeat_state |-> "",
      heartbeat_in_flight |-> FALSE,
      system_locked |-> FALSE,
      was_locked |-> FALSE,
      lock_popup_handled |-> FALSE,
      online |-> TRUE,
      offline_since |-> MaxAge,           \* timestamp 0.0
      offline_break_started |-> FALSE,
      consecutive_hb_failures |-> 0,
      shift_start |-> None,
      shift_end |-> None,
      shift_crosses_midnight |-> FALSE ]

Min(a, b) == IF a <= b THEN a ELSE b
Max(a, b) == IF a >= b THEN a ELSE b
LastN(seq, n) == SubSeq(seq, Len(seq) - Min(n, Len(seq)) + 1, Len(seq))

idle_seconds_uncapped(s) == s.last_monotonic_ts

idle_seconds(s) == Min(s.last_monotonic_ts, IDLE_CAP)

record_activity(s) ==
    [s EXCEPT !.last_input_ts = 0, !.last_monotonic_ts = 0]

\* time.monotonic() moves on by d while nothing else runs (the machine
\* sleeps): the raw gap grows by d
slept_through(s, d) ==
    [s EXCEPT !.last_input_ts = @ + d, !.last_monotonic_ts = @ + d]

\* the clock moves on by d: every age grows
older(s, d) ==
    [s EXCEPT !.last_input_ts = Min(@ + d, MaxAge),
              !.last_monotonic_ts = Min(@ + d, MaxAge),
              !.last_heartbeat_time = Min(@ + d, MaxAge),
              !.offline_since = Min(@ + d, MaxAge)]

can_show_popup(s) ==
    /\ ~s.popup_visible
    /\ s.popup_allowed
    /\ ~s.awaiting_first_activity

on_popup_shown_noflags(s) ==
    [s EXCEPT !.break_active = TRUE]

on_popup_shown(s) ==
    [s EXCEPT !.popup_visible = TRUE,
              !.popup_allowed = FALSE,
              !.break_active = TRUE]

on_popup_submitted_keeps_visible(s) ==
    record_activity([s EXCEPT !.awaiting_first_activity = TRUE])

on_popup_submitted_reallows(s) ==
    record_activity([s EXCEPT !.popup_visible = FALSE,
                              !.popup_allowed = TRUE])

on_popup_submitted(s) ==
    record_activity([s EXCEPT !.popup_visible = FALSE,
                              !.awaiting_first_activity = TRUE])

mark_offline_overwrites(s) ==
    [s EXCEPT !.online = FALSE,
              !.offline_since = 0,
              !.offline_break_started = FALSE]

mark_offline(s) ==
    IF ~s.online THEN s
    ELSE [s EXCEPT !.online = FALSE,
                   !.offline_since = 0,
                   !.offline_break_started = FALSE]

mark_online_stays_offline(s) ==
    [s EXCEPT !.consecutive_hb_failures = 0]

mark_online(s) ==
    [s EXCEPT !.online = TRUE, !.consecutive_hb_failures = 0]

on_user_active_still_disallowed(s) ==
    [s EXCEPT !.awaiting_first_activity = FALSE,
              !.was_locked = FALSE,
              !.lock_popup_handled = FALSE,
              !.break_active = FALSE]

on_user_active(s) ==
    [s EXCEPT !.awaiting_first_activity = FALSE,
              !.popup_allowed = TRUE,
              !.was_locked = FALSE,
              !.lock_popup_handled = FALSE,
              !.break_active = FALSE]

\* ------------------------------------------------------ worker threads
\* A break call's thread is before its first HTTP attempt (pc "first") or
\* past it, in the rest of the retry loop (pc "retry").  No other thread can
\* tell the second attempt from the third, so the rest of the loop is one step.
\* send_break_start for episode e
OpenThread(e) == [kind |-> "break_start", ep |-> e, pc |-> "first"]
\* _send_break_end_async.do_call running send_break_end for episode e
CloseThread(e) == [kind |-> "break_end", ep |-> e, pc |-> "first"]
\* _do_tick.do_heartbeat: pc walks send -> flag -> count; n is the number of
\* do_heartbeat threads already inside send_heartbeat when this one started
HeartbeatThread(n) ==
    [kind |-> "heartbeat", pc |-> "send", success |-> FALSE, n |-> n]

\* send_break_start for offline episode e
OfflineOpenThread(e) == [kind |-> "offline_break_start", ep |-> e, pc |-> "first"]
\* _on_reconnect.end_offline_break: send_break_reason, then send_break_end
EndOfflineThread(e) == [kind |-> "end_offline_break", ep |-> e, pc |-> "first"]
\* _on_reconnect.flush: time.sleep(2), then network.flush_buffer()
FlushThread == [kind |-> "flush", ep |-> 0, pc |-> "sleep"]

offline_workers(ts) ==
    {w \in ts : w.kind \in {"offline_break_start", "end_offline_break", "flush"}}

sending(ts) == {w \in ts : w.kind = "heartbeat" /\ w.pc = "send"}

\* the break calls dispatched for the current episode, and what started it
NoCalls ==
    [trigger |-> "", opens |-> 0, submits |-> 0, annotates |-> 0, closes |-> 0]

Other == [name |-> "other"]

\* ---------------------------------------------- AgentApp, main thread
\* The part of the application one callback reads and writes, as a record
App ==
    [ state |-> state, threads |-> threads, popup |-> popup,
      episode |-> episode, calls |-> calls,
      break_end_in_flight |-> break_end_in_flight,
      link |-> link,
      has_buffered_requests |-> (buffer # <<>>),
      shows |-> 0,      \* _show_popup calls made by this callback
      sent |-> {} ]     \* arguments of the heartbeats this callback started

\* IdlePopup.show(): a no-op when the form is already up
popup_show(p) == IF p = "hidden" THEN "form" ELSE p

_show_popup(m) ==
    LET e == m.episode + 1 IN
    [m EXCEPT !.state = on_popup_shown(m.state),
              !.popup = popup_show(m.popup),
              !.threads = @ \cup {OpenThread(e)},
              !.episode = e,
              !.calls = [NoCalls EXCEPT !.opens = 1],
              !.shows = @ + 1]

_send_break_end_async(m) ==
    IF m.break_end_in_flight THEN m
    ELSE [m EXCEPT !.break_end_in_flight = TRUE,
                   !.threads = @ \cup {CloseThread(m.episode)},
                   !.calls.closes = @ + 1]

drained_drops_rest(q, visible) == <<>>

\* _drain_queue: what is left in the queue after one drain
drained(q, visible) ==
    IF visible THEN <<>>
    ELSE SubSeq(q, Min(Len(q), DRAIN_BATCH) + 1, Len(q))

_drain_queue_any_input_ends_break(m, q) ==
    IF m.state.popup_visible \/ Len(q) = 0 THEN m
    ELSE _send_break_end_async(
             [m EXCEPT !.state = on_user_active(record_activity(m.state))])

\* _drain_queue: the drain's effect on the application
_drain_queue(m, q) ==
    IF m.state.popup_visible \/ Len(q) = 0 THEN m
    ELSE LET s1 == record_activity(m.state) IN
         IF s1.awaiting_first_activity
         THEN _send_break_end_async([m EXCEPT !.state = on_user_active(s1)])
         ELSE [m EXCEPT !.state = s1]

\* ---- connectivity monitoring
OFFLINE_AFTER_FAILURES == 2
ServerUrls == {"", "https://hr.example"}

_start_offline_break(m) ==
    IF m.state.offline_break_started THEN m
    ELSE [m EXCEPT !.state.offline_break_started = TRUE,
                   !.threads = @ \cup {OfflineOpenThread(m.link.episodes)},
                   !.link.log = Append(@, <<"open", m.link.episodes>>)]

_on_reconnect(m) ==
    LET had_offline_break == m.state.offline_break_started
        m1 == [m EXCEPT !.state = mark_online(m.state)]
        m2 == IF had_offline_break
              THEN [m1 EXCEPT !.threads = @ \cup {EndOfflineThread(m.link.episodes)}]
              ELSE m1
    IN  IF m.has_buffered_requests
        THEN [m2 EXCEPT !.threads = @ \cup {FlushThread}]
        ELSE m2

\* the first branch of _do_connectivity_check: two heartbeat failures in a
\* row while online, verified with the socket probe
detect_offline(m, online_now) ==
    IF m.state.consecutive_hb_failures >= OFFLINE_AFTER_FAILURES /\ m.state.online
    THEN IF ~online_now
         THEN _start_offline_break(
                  [m EXCEPT !.state = mark_offline(m.state),
                            !.link.episodes = @ + 1])
         ELSE [m EXCEPT !.state.consecutive_hb_failures = 0]
    ELSE m

\* the second branch: offline, probe for recovery
check_recovery(m, online_now) ==
    IF ~m.state.online
    THEN IF online_now THEN _on_reconnect(m) ELSE m
    ELSE m

_do_connectivity_check(m, server_url, first, second) ==
    IF server_url = "" THEN m
    ELSE check_recovery(detect_offline(m, first), second)

\* ---- the shift gate
\* str < str: the first place where they differ decides, a proper prefix
\* is smaller
RECURSIVE str_less(_, _)
str_less(a, b) ==
    IF b = <<>> THEN FALSE
    ELSE IF a = <<>> THEN TRUE
    ELSE IF Head(a) # Head(b) THEN Head(a) < Head(b)
    ELSE str_less(Tail(a), Tail(b))

\* datetime.now(_PKT).strftime("%H:%M"), from the minute of the day
strftime_HM(minute) == hhmm(minute \div 60, minute % 60)

_is_within_shift_no_fallback(s, current) ==
    IF s.shift_crosses_midnight
    THEN ~str_less(current, s.shift_start) \/ str_less(current, s.shift_end)
    ELSE ~str_less(current, s.shift_start) /\ str_less(current, s.shift_end)

_is_within_shift(s, current) ==
    IF s.shift_start = None \/ s.shift_end = None THEN TRUE
    ELSE IF s.shift_crosses_midnight
    THEN ~str_less(current, s.shift_start) \/ str_less(current, s.shift_end)
    ELSE ~str_less(current, s.shift_start) /\ str_less(current, s.shift_end)

\* the minutes at which a tick finds itself inside the shift
InShiftMinutes(s) ==
    {minute \in DayMinutes : _is_within_shift(s, strftime_HM(minute))}

\* ---- the tick, phase by phase
sys_idle_supplement_ends_break(s, sys_idle) ==
    IF sys_idle >= 0 /\ ~s.popup_visible
       /\ sys_idle < idle_seconds(s) - SYS_IDLE_SLACK
    THEN IF s.awaiting_first_activity
         THEN on_user_active(record_activity(s))
         ELSE record_activity(s)
    ELSE s

sys_idle_supplement(s, sys_idle) ==
    IF sys_idle >= 0 /\ ~s.popup_visible
       /\ sys_idle < idle_seconds(s) - SYS_IDLE_SLACK
    THEN record_activity(s)
    ELSE s

lock_detection(s, locked) ==
    IF locked /\ ~s.system_locked
    THEN [s EXCEPT !.system_locked = TRUE,
                   !.was_locked = TRUE,
                   !.lock_popup_handled = FALSE]
    ELSE IF ~locked /\ s.system_locked
    THEN [s EXCEPT !.system_locked = FALSE]
    ELSE s

classify_timer_only(s, idle_secs) ==
    IF idle_secs >= IDLE_THRESHOLD_SEC THEN "IDLE" ELSE "ACTIVE"

classify(s, idle_secs) ==
    IF s.system_locked \/ idle_secs >= IDLE_THRESHOLD_SEC THEN "IDLE" ELSE "ACTIVE"

unlock_popup_due(s) ==
    s.was_locked /\ ~s.system_locked /\ ~s.lock_popup_handled

unlock_popup(m) ==
    IF unlock_popup_due(m.state)
    THEN LET m1 == [m EXCEPT !.state.lock_popup_handled = TRUE] IN
         IF can_show_popup(m1.state)
         THEN [_show_popup(m1) EXCEPT !.calls.trigger = "unlock"]
         ELSE m1
    ELSE m

idle_popup_due(s, current, idle_secs) ==
    /\ current = "IDLE"
    /\ ~s.system_locked
    /\ idle_secs >= IDLE_THRESHOLD_SEC
    /\ can_show_popup(s)

idle_popup(m, current, idle_secs) ==
    IF idle_popup_due(m.state, current, idle_secs)
    THEN [_show_popup(m) EXCEPT !.calls.trigger = "idle"]
    ELSE m

state_changed(s, current) == current # s.last_heartbeat_state

interval_elapsed(s) == s.last_heartbeat_time >= HEARTBEAT_INTERVAL_SEC

heartbeat_due_overlapping(s, current) ==
    state_changed(s, current) \/ interval_elapsed(s)

heartbeat_due_interval_only(s, current) ==
    interval_elapsed(s) /\ ~s.heartbeat_in_flight

heartbeat_due(s, current) ==
    /\ state_changed(s, current) \/ interval_elapsed(s)
    /\ ~s.heartbeat_in_flight

hb_score_keeps_computed(current, cheat, score) ==
    IF current = "ACTIVE" THEN score ELSE NoScore

\* the state and score the heartbeat carries
hb_score(current, cheat, score) ==
    IF current = "ACTIVE" THEN (IF cheat THEN 0 ELSE score) ELSE NoScore

hb_state(current, cheat, score) ==
    IF current = "ACTIVE" /\ (cheat \/ score < SUSPICIOUS_BELOW)
    THEN "SUSPICIOUS" ELSE current

heartbeat_records_when_skipped(m, current, cheat, score) ==
    IF heartbeat_due(m.state, current)
    THEN [m EXCEPT !.state.last_heartbeat_state = current,
                   !.state.last_heartbeat_time = 0,
                   !.state.heartbeat_in_flight = TRUE,
                   !.threads = @ \cup {HeartbeatThread(Cardinality(sending(@)))},
                   !.sent = @ \cup {[s |-> hb_state(current, cheat, score),
                                     sc |-> hb_score(current, cheat, score),
                                     cheat |-> cheat]}]
    ELSE [m EXCEPT !.state.last_heartbeat_state = current]

heartbeat_records_sent_state(m, current, cheat, score) ==
    IF heartbeat_due(m.state, current)
    THEN [m EXCEPT !.state.last_heartbeat_state =
                       hb_state(current, cheat, score),
                   !.state.last_heartbeat_time = 0,
                   !.state.heartbeat_in_flight = TRUE,
                   !.threads = @ \cup {HeartbeatThread(Cardinality(sending(@)))},
                   !.sent = @ \cup {[s |-> hb_state(current, cheat, score),
                                     sc |-> hb_score(current, cheat, score),
                                     cheat |-> cheat]}]
    ELSE m

heartbeat(m, current, cheat, score) ==
    IF heartbeat_due(m.state, current)
    THEN [m EXCEPT !.state.last_heartbeat_state = current,
                   !.state.last_heartbeat_time = 0,
                   !.state.heartbeat_in_flight = TRUE,
                   !.threads = @ \cup {HeartbeatThread(Cardinality(sending(@)))},
                   !.sent = @ \cup {[s |-> hb_state(current, cheat, score),
                                     sc |-> hb_score(current, cheat, score),
                                     cheat |-> cheat]}]
    ELSE m

\* _do_tick, in shift: the phases in program order.  The result carries what
\* the tick observed (current, changed, ...) next to the application fields.
_do_tick(m, sys_idle, locked, cheat, score) ==
    LET s1 == sys_idle_supplement(m.state, sys_idle)
        s2 == lock_detection(s1, locked)
        idle_secs == idle_seconds(s2)
        current == classify(s2, idle_secs)
        m2 == [m EXCEPT !.state = s2]
        m3 == unlock_popup(m2)
        m4 == idle_popup(m3, current, idle_secs)
        m5 == heartbeat(m4, current, cheat, score)
    IN  [ app |-> m5,
          supplemented |-> (s1 # m.state),
          locked_now |-> (s2.system_locked /\ ~s1.system_locked),
          unlock |-> unlock_popup_due(s2),
          current |-> current,
          changed |-> state_changed(m4.state, current),
          elapsed |-> interval_elapsed(m4.state),
          in_flight |-> m4.state.heartbeat_in_flight ]

\* ------------------------------------------- network.py: offline buffer
\* One line of the buffer file: what json.loads makes of it.  The ts member
\* buffer_request also writes is read by nothing and is left out.
BreakCalls == {"send_break_start", "send_break_reason", "send_break_end"}

\* startedAt of a break Open; category of an Annotate
StartTimes == {"09:00", "09:05"}

CallArgs(fn) ==
    CASE fn = "send_break_start" -> StartTimes
      [] fn = "send_break_reason" -> {"General"}
      [] OTHER -> {""}

\* the request a break call sends, and the line buffer_request writes for it
request(fn, arg) ==
    [ parses |-> TRUE,
      method |-> IF fn = "send_break_start" THEN "POST" ELSE "PATCH",
      url |-> "/api/agent/break-log",
      payload |-> CASE fn = "send_break_start" -> <<"Pending", arg>>
                    [] fn = "send_break_reason" -> <<"update-reason", arg>>
                    [] OTHER -> <<"end-break", arg>> ]

Requests ==
    UNION {{request(fn, arg) : arg \in CallArgs(fn)} : fn \in BreakCalls}

\* a line cut short by a power loss during the write: json.loads raises on it
CorruptLine ==
    [parses |-> FALSE, method |-> "", url |-> "", payload |-> <<"{", "">>]

NoRequest ==
    [parses |-> FALSE, method |-> "", url |-> "", payload |-> <<"", "">>]

is_duplicate_never(buf, e) == FALSE

\* buffer_request: the new request equals the last line of the file
is_duplicate(buf, e) ==
    /\ Len(buf) > 0
    /\ buf[Len(buf)].parses
    /\ buf[Len(buf)].method = e.method
    /\ buf[Len(buf)].url = e.url
    /\ buf[Len(buf)].payload = e.payload

buffer_request(buf, e) ==
    IF is_duplicate(buf, e) THEN buf ELSE Append(buf, e)

\* flush_buffer, one line of the loop: the line goes to still_failed when
\* json.loads raises on it or its replay is not answered 200/201; a line with
\* a method other than POST and PATCH is skipped and not kept
kept(line, delivered) ==
    \/ ~line.parses
    \/ line.method \in {"POST", "PATCH"} /\ ~delivered

RECURSIVE still_failed(_, _, _)
still_failed(lines, ok, i) ==
    IF i > Len(lines) THEN <<>>
    ELSE (IF kept(lines[i], i \in ok) THEN <<lines[i]>> ELSE <<>>)
            \o still_failed(lines, ok, i + 1)

\* flush_buffer as a whole, ok being the lines whose replay is answered 200
flush_buffer(buf, ok) == still_failed(buf, ok, 1)

\* ------------------------------------------------ api.py: a break call
\* What one attempt can come back with: HTTP 200, HTTP 200 with a body that
\* is not JSON, or anything else (another status, a timeout, no route).
\* Only send_break_end reads the body, inside the try block.
Responses(fn) ==
    {"200", "error"} \cup
        (IF fn = "send_break_end" THEN {"200 not json"} ELSE {})
is_http_200(resp) == resp \in {"200", "200 not json"}
returns_true(fn, resp) == resp = "200"

\* time.sleep(2 * (attempt + 1)) after failed attempt number `attempt` (from 0)
backoff(attempt) == 2 * (attempt + 1)

Callers == {"c1", "c2"}

IdleCaller == [pc |-> "idle", req |-> NoRequest]

IdleFlusher ==
    [pc |-> "idle", lines |-> <<>>, i |-> 1, still_failed |-> <<>>,
     before |-> <<>>]

NoCall ==
    [pc |-> "idle", fn |-> "", req |-> NoRequest, statuses |-> <<>>,
     slept |-> <<>>, requested |-> 0, deduped |-> FALSE, appended |-> 0,
     result |-> FALSE]

NoLastCall ==
    [name |-> "", arg |-> NoRequest, before |-> <<>>, ok |-> {}]

\* ------------------------------------------- tracker.py: ActivityTracker
\* Time is counted in clock ticks, TicksPerSec to the second; thresholds on
\* quotients are compared in exact arithmetic, cross-multiplied.
PATTERN_BUFFER_SIZE == 30
MOVE_THROTTLE_TICKS == TicksPerSec \div 2      \* MOVE_THROTTLE_SEC = 0.5
GRID == 20
Raises == -1                                   \* ZeroDivisionError

Tracker0 ==
    [ last_move_time |-> 0,
      click_times |-> <<>>,
      click_positions |-> <<>>,
      move_positions |-> <<>>,
      key_count |-> 0,
      mouse_count |-> 0,
      scroll_count |-> 0,
      last_score |-> 100 ]

deque_append_unbounded(d, x) == Append(d, x)

\* deque(maxlen=PATTERN_BUFFER_SIZE).append(x)
deque_append(d, x) ==
    IF Len(d) < PATTERN_BUFFER_SIZE THEN Append(d, x)
    ELSE Append(Tail(d), x)

\* t is time.time() when the handler runs
on_mouse_move(tr, x, y, t) ==
    IF t - tr.last_move_time < MOVE_THROTTLE_TICKS THEN tr
    ELSE [tr EXCEPT !.last_move_time = t,
                    !.mouse_count = @ + 1,
                    !.move_positions = deque_append(@, <<x, y, t>>)]

on_mouse_click(tr, x, y, t) ==
    [tr EXCEPT !.mouse_count = @ + 1,
               !.click_times = deque_append(@, t),
               !.click_positions = deque_append(@, <<x, y>>)]

on_mouse_scroll(tr) == [tr EXCEPT !.scroll_count = @ + 1]

on_key_event(tr) == [tr EXCEPT !.key_count = @ + 1]

RECURSIVE Sum(_)
Sum(seq) == IF seq = <<>> THEN 0 ELSE Head(seq) + Sum(Tail(seq))

Abs(n) == IF n < 0 THEN -n ELSE n

RECURSIVE Gcd(_, _)
Gcd(a, b) == IF b = 0 THEN a ELSE Gcd(b, a % b)

RECURSIVE Lcm(_)
Lcm(seq) ==
    IF seq = <<>> THEN 1
    ELSE LET l == Lcm(Tail(seq)) IN (Head(seq) * l) \div Gcd(Head(seq), l)

\* n^2 * len * variance of vals, an integer
SumSqDev(vals) ==
    LET n == Len(vals)
        S == Sum(vals)
    IN  Sum([i \in 1..n |-> (n * vals[i] - S) * (n * vals[i] - S)])

\* math.sqrt(variance) / mean < p / q, for a positive mean; the division
\* raises when the mean is zero
cv_below(vals, p, q) ==
    q * q * SumSqDev(vals) < p * p * Len(vals) * Sum(vals) * Sum(vals)

_score_density(total_events) ==
    IF total_events < 3 THEN 0
    ELSE IF total_events < 8 THEN 5
    ELSE IF total_events < 15 THEN 10
    ELSE IF total_events < 25 THEN 15
    ELSE 20

intervals(click_times) ==
    [i \in 1..(Len(click_times) - 1) |-> click_times[i + 1] - click_times[i]]

\* cv = math.sqrt(variance) / mean_interval and the ladder under it
interval_cv_score(iv) ==
    IF Sum(iv) = 0 THEN Raises
    ELSE IF cv_below(iv, 1, 20) THEN 0
    ELSE IF cv_below(iv, 1, 10) THEN 4
    ELSE IF cv_below(iv, 3, 20) THEN 8
    ELSE IF cv_below(iv, 1, 5) THEN 12
    ELSE IF cv_below(iv, 3, 10) THEN 16
    ELSE 20

_score_click_intervals_unguarded(click_times) ==
    IF Len(click_times) < 3 THEN 20
    ELSE interval_cv_score(intervals(click_times))

_score_click_intervals(click_times) ==
    IF Len(click_times) < 3 THEN 20
    ELSE LET iv == intervals(click_times) IN
         IF Len(iv) = 0 THEN 20
         ELSE IF Sum(iv) <= 0 THEN 20            \* mean_interval <= 0
         ELSE interval_cv_score(iv)

cells(click_positions) ==
    {<<click_positions[i][1] \div GRID, click_positions[i][2] \div GRID>> :
        i \in 1..Len(click_positions)}

\* diversity = len(unique) / len(click_positions)
_score_position_diversity(click_positions) ==
    IF Len(click_positions) < 3 THEN 20
    ELSE LET u == Cardinality(cells(click_positions))
             n == Len(click_positions)
         IN  IF 20 * u < n THEN 0                \* diversity < 0.05
             ELSE IF 10 * u < n THEN 4           \* < 0.10
             ELSE IF 5 * u < n THEN 8            \* < 0.20
             ELSE IF 5 * u < 2 * n THEN 12       \* < 0.40
             ELSE IF 5 * u < 3 * n THEN 16       \* < 0.60
             ELSE 20

_score_input_mix(key_count, scroll_count, total_events) ==
    IF total_events <= 3 THEN 20
    ELSE IF key_count = 0 /\ scroll_count = 0 THEN 0
    ELSE IF key_count = 0 THEN 6
    ELSE IF 20 * key_count < total_events THEN 10     \* ratio < 0.05
    ELSE IF 10 * key_count < total_events THEN 15     \* ratio < 0.10
    ELSE 20

\* The samples of the move buffer lie on one horizontal line in the model,
\* so that math.sqrt(dx^2 + dy^2) is the integer |dx|.
dist(a, b) == Abs(b[1] - a[1])

\* dt = max(t2 - t1, 0.001): buffered moves are MOVE_THROTTLE_SEC apart or
\* more, so the maximum is t2 - t1
dts(move_positions) ==
    [i \in 1..(Len(move_positions) - 1) |->
        move_positions[i + 1][3] - move_positions[i][3]]

\* dist / dt for each pair of neighbours, all multiplied by the same
\* number to make them integers (the coefficient of variation is the same)
speeds(move_positions) ==
    LET d == dts(move_positions)
        l == Lcm(d)
    IN  [i \in 1..Len(d) |->
            dist(move_positions[i], move_positions[i + 1]) * (l \div d[i])]

speed_cv_score(sp) ==
    IF Sum(sp) = 0 THEN Raises
    ELSE IF cv_below(sp, 1, 20) THEN 0
    ELSE IF cv_below(sp, 1, 10) THEN 4
    ELSE IF cv_below(sp, 1, 5) THEN 10
    ELSE IF cv_below(sp, 3, 10) THEN 15
    ELSE 20

_score_movement_naturalness(move_positions) ==
    IF Len(move_positions) < 5 THEN 20
    ELSE LET sp == speeds(move_positions) IN
         IF Len(sp) = 0 THEN 20
         ELSE IF Sum(sp) <= 0 THEN 20            \* mean_speed <= 0
         ELSE speed_cv_score(sp)

total_events(tr) == tr.key_count + tr.mouse_count + tr.scroll_count

no_data_never(tr) == FALSE

\* "Truly no data - can't judge"
no_data(tr) == total_events(tr) = 0 /\ Len(tr.click_times) < 3

\* the five signals, in the order the code adds them
sub_scores(tr) ==
    << _score_density(total_events(tr)),
       _score_click_intervals(tr.click_times),
       _score_position_diversity(tr.click_positions),
       _score_input_mix(tr.key_count, tr.scroll_count, total_events(tr)),
       _score_movement_naturalness(tr.move_positions) >>

reset_counters_and_buffers(tr) ==
    [tr EXCEPT !.key_count = 0, !.mouse_count = 0, !.scroll_count = 0,
               !.click_times = <<>>, !.click_positions = <<>>,
               !.move_positions = <<>>]

\* "Reset counters for next period"
reset_counters(tr) ==
    [tr EXCEPT !.key_count = 0, !.mouse_count = 0, !.scroll_count = 0]

\* calculate_activity_score: the tracker afterwards and the value returned
\* (Raises when a helper raised, which leaves _last_score as it was)
calculate_activity_score(tr) ==
    LET subs == sub_scores(tr)
        raised == \E i \in 1..Len(subs) : subs[i] = Raises
    IN  IF no_data(tr)
        THEN [tracker |-> [reset_counters(tr) EXCEPT !.last_score = 100],
              score |-> 100]
        ELSE IF raised
        THEN [tracker |-> reset_counters(tr), score |-> Raises]
        ELSE [tracker |-> [reset_counters(tr) EXCEPT !.last_score = Sum(subs)],
              score |-> Sum(subs)]

\* ---------------------------------------- runner.py: run_with_auto_restart
CRASH_WINDOW == 120
MAX_RAPID_CRASHES == 10
LONG_WAIT == 120
WAIT_STEP == 10
WAIT_CAP == 60
\* how long main() ran before it ended, in seconds
RunTimes == {0, 60, CRASH_WINDOW, CRASH_WINDOW + 1, 600}

\* the locals of run_with_auto_restart and where it stands; waits are the
\* waits of the rapid crashes that came one after the other
Runner0 ==
    [pc |-> "main", crash_count |-> 0, wait |-> 0, elapsed |-> 0,
     last |-> "", waits |-> <<>>]

\* crash_count after a crash that came elapsed seconds into the run
counted(crash_count, elapsed) ==
    (IF elapsed > CRASH_WINDOW THEN 0 ELSE crash_count) + 1

restart_wait(crash_count) ==
    IF crash_count >= MAX_RAPID_CRASHES THEN LONG_WAIT
    ELSE Min(WAIT_STEP * crash_count, WAIT_CAP)

\* str(e) of the SystemExit main() can raise: sys.exit(0), sys.exit(1), sys.exit()
ExitCodes == {"0", "1", ""}

on_system_exit_counts_crash(r, code) ==
    IF code = "0"
    THEN [r EXCEPT !.pc = "stopped", !.last = "SystemExit 0"]
    ELSE [r EXCEPT !.pc = "sleep", !.last = "SystemExit",
                   !.crash_count = @ + 1,
                   !.wait = restart_wait(r.crash_count + 1)]

\* except SystemExit: break on "0", else log the error and loop at once
on_system_exit(r, code) ==
    IF code = "0"
    THEN [r EXCEPT !.pc = "stopped", !.last = "SystemExit 0"]
    ELSE [r EXCEPT !.last = "SystemExit"]

\* ---- the offline breaks and the downtime recovery, before anything ran
\* episodes: mark_offline transitions so far; log: the offline-break calls in
\* the order they were dispatched (Open) or made by the worker (Annotate,
\* Close), each with its episode
Link0 == [episodes |-> 0, log |-> <<>>]

\* ---- recover_downtime (called once at startup, before the main loop)
DOWNTIME_MIN_GAP_SEC == 300
DEFAULT_GRACE_MIN == 20
DaySec == 24 * 3600

\* a time of the second day of the model's calendar, in seconds
at(h, m, s) == DaySec + h * 3600 + m * 60 + s

\* what network.get_last_alive_ts can return: nothing, or (in a tuple) a
\* time before, inside, at the end of the grace of, and after the day and
\* night shifts
AliveTimes ==
    {None} \cup
    { <<ts>> : ts \in {at(5, 0, 0), at(6, 19, 59), at(6, 20, 0), at(8, 0, 0),
                      at(13, 0, 0), at(18, 19, 59), at(18, 20, 0),
                      at(21, 0, 0), at(23, 0, 0)} }

\* time.time() - last_alive
Gaps == {0, DOWNTIME_MIN_GAP_SEC - 1, DOWNTIME_MIN_GAP_SEC, 2 * 3600}

\* a shiftStart that is not "HH:MM"
Malformed == <<9>>

\* the shift_info main() passes on: None when the fetch failed, or (in a
\* tuple) what the server answered
RecoveryShiftInfos ==
    {None} \cup
    { <<s>> : s \in ShiftInfos \cup
                    {[shiftStart |-> Malformed, shiftEnd |-> hhmm(18, 0),
                      crossesMidnight |-> FALSE]} }

\* sh, sm = map(int, s.split(":")), as seconds of the day
hm_seconds(s) == ((s[1] * 10 + s[2]) * 60 + s[3] * 10 + s[4]) * 60

\* the shift-clip block: skip tells that last_alive was past the grace end,
\* start is effective_start
clip(last_alive, info) ==
    LET raw == [skip |-> FALSE, clipped |-> FALSE, start |-> last_alive,
                grace_end |-> 0]
    IN  IF info = None THEN raw
        ELSE IF info[1].shiftEnd = None \/ info[1].shiftStart = None
        THEN raw
        ELSE IF Len(info[1].shiftStart) # 4 \/ Len(info[1].shiftEnd) # 4
        THEN raw            \* ValueError, caught: the raw gap is used
        ELSE
        LET shift_info == info[1]
            grace_sec == DEFAULT_GRACE_MIN * 60
            alive_date == (last_alive \div DaySec) * DaySec
            alive_hour == (last_alive % DaySec) \div 3600
            start_s == hm_seconds(shift_info.shiftStart)
            end_s == hm_seconds(shift_info.shiftEnd)
            morning == shift_info.crossesMidnight /\ alive_hour < 12
            shift_start_dt == IF morning THEN alive_date - DaySec + start_s
                              ELSE alive_date + start_s
            shift_end_dt == IF shift_info.crossesMidnight /\ ~morning
                            THEN alive_date + DaySec + end_s
                            ELSE alive_date + end_s
            grace_end_ts == shift_end_dt + grace_sec
            grace_start_ts == shift_start_dt - grace_sec
        IN  IF last_alive >= grace_end_ts
            THEN [skip |-> TRUE, clipped |-> TRUE, start |-> last_alive,
                  grace_end |-> grace_end_ts]
            ELSE [skip |-> FALSE, clipped |-> TRUE,
                  start |-> Max(last_alive, grace_start_ts),
                  grace_end |-> grace_end_ts]

\* the break calls of the recovery, given what send_break_start returned
recovery_calls_whatever_open_returned(ok, start) ==
    <<<<"open", start>>, <<"annotate", "Others">>, <<"close", "">>>>

recovery_calls(ok, start) ==
    IF ok THEN <<<<"open", start>>, <<"annotate", "Others">>, <<"close", "">>>>
    ELSE <<<<"open", start>>>>

\* recover_downtime: the calls it makes, in order, network.save_alive_ts
\* included
recover_downtime(stored, gap, shift_info, ok) ==
    IF stored = None THEN <<<<"save_alive_ts", "">>>>
    ELSE IF gap < DOWNTIME_MIN_GAP_SEC THEN <<<<"save_alive_ts", "">>>>
    ELSE IF clip(stored[1], shift_info).skip THEN <<<<"save_alive_ts", "">>>>
    ELSE recovery_calls(ok, clip(stored[1], shift_info).start)
             \o <<<<"save_alive_ts", "">>>>

NotRecovered == [pc |-> "start"]

BootInit ==
    /\ runner = Runner0
    /\ link = Link0
    /\ recovery = NotRecovered

\* Every sample handed to the tracker since it was constructed: the click
\* times and positions, the moves that came outside the throttle window
\* (with the timestamp the listener gave the event, move_ts) and the
\* timestamps of those that came inside it.
NoRecorded ==
    [click_times |-> <<>>, click_positions |-> <<>>, move_positions |-> <<>>,
     move_ts |-> <<>>, dropped_ts |-> <<>>, last_ts |-> 0,
     events |-> 0, ticks |-> 0]

in_throttle_window(tr, t) == t - tr.last_move_time < MOVE_THROTTLE_TICKS

noted_click(rec, x, y, t) ==
    [rec EXCEPT !.click_times = Append(@, t),
                !.click_positions = Append(@, <<x, y>>),
                !.last_ts = t,
                !.events = @ + 1]

noted_move(rec, tr, x, y, t, ts) ==
    IF in_throttle_window(tr, t)
    THEN [rec EXCEPT !.dropped_ts = Append(@, ts),
                     !.last_ts = ts, !.events = @ + 1]
    ELSE [rec EXCEPT !.move_positions = Append(@, <<x, y, t>>),
                     !.move_ts = Append(@, ts),
                     !.last_ts = ts, !.events = @ + 1]

\* A session so far: k times, a move and then a click, two ticks apart.
\* "clicker" repeats one spot on the beat; "human" wanders and hesitates;
\* "burst" has all its clicks in the first tick, before the moves, which
\* report the same position every time.
Sessions == {"clicker", "human", "burst"}
SessionLengths == {0, 2, 9, 10, PATTERN_BUFFER_SIZE, PATTERN_BUFFER_SIZE + 1}
session_time(k) == MOVE_THROTTLE_TICKS * (k + 1)
session_click_time(s, k) ==
    IF s = "burst" THEN session_time(0)
    ELSE session_time(k) + (IF s = "human" /\ k % 3 = 0 THEN 1 ELSE 0)
session_click_x(s, k) ==
    IF s = "human" THEN GRID * (k % 7) ELSE 5 + 10 * (k % 2)
session_move_x(s, k) ==
    IF s = "human" THEN k % 3 ELSE IF s = "clicker" THEN k % 2 ELSE 0

\* the tracker, and what it was handed, after a session of n rounds
session(s, n) ==
    LET click_time(k) == session_click_time(s, k)
        click_pos(k) == <<session_click_x(s, k), 5>>
        move(k) == <<session_move_x(s, k), 0, session_time(k)>>
        \* the deques keep the last m of the n samples
        m == Min(n, PATTERN_BUFFER_SIZE)
    IN  [tracker |->
            [Tracker0 EXCEPT
                !.last_move_time = IF n = 0 THEN 0 ELSE session_time(n),
                !.mouse_count = 2 * n,
                !.click_times = [i \in 1..m |-> click_time(n - m + i)],
                !.click_positions = [i \in 1..m |-> click_pos(n - m + i)],
                !.move_positions = [i \in 1..m |-> move(n - m + i)]],
         recorded |->
            [NoRecorded EXCEPT
                !.click_times = [k \in 1..n |-> click_time(k)],
                !.click_positions = [k \in 1..n |-> click_pos(k)],
                !.move_positions = [k \in 1..n |-> move(k)],
                !.move_ts = [k \in 1..n |-> session_time(k)],
                !.last_ts = IF n = 0 THEN 0
                            ELSE Max(click_time(n), session_time(n))]]

NotScored == [called |-> FALSE, before |-> Tracker0, score |-> 0]

\* ---- _drain_queue and the tracker
\* An event as the listener queues it: (kind, x, y, timestamp).  The i-th
\* event of a backlog is numbered in its x.
KindOf(i) ==
    CASE i % 4 = 0 -> "move" [] i % 4 = 1 -> "click"
      [] i % 4 = 2 -> "key"  [] OTHER -> "scroll"
event(i) == <<KindOf(i), i, 0, i>>
Backlog(n) == [i \in 1..n |-> event(i)]

\* the events one drain takes off the queue
batch(q, visible) ==
    IF visible THEN <<>> ELSE SubSeq(q, 1, Min(Len(q), DRAIN_BATCH))

\* the dispatch on event[0]
handle(tr, ev, t) ==
    CASE ev[1] = "move" -> on_mouse_move(tr, ev[2], ev[3], t)
      [] ev[1] = "click" -> on_mouse_click(tr, ev[2], ev[3], t)
      [] ev[1] = "scroll" -> on_mouse_scroll(tr)
      [] ev[1] = "key" -> on_key_event(tr)
      [] OTHER -> tr

\* the tracker after q[lo..hi] were handed to it one after the other
RECURSIVE handle_all(_, _, _, _, _)
handle_all(tr, q, lo, hi, t) ==
    IF lo > hi THEN tr
    ELSE IF lo = hi THEN handle(tr, q[lo], t)
    ELSE LET mid == (lo + hi) \div 2
             half == handle_all(tr, q, lo, mid, t)
         \* (the test only makes the first half be worked out first)
         IN  IF half = tr THEN handle_all(tr, q, mid + 1, hi, t)
             ELSE handle_all(half, q, mid + 1, hi, t)

\* ------------------------------------------------------------------ Init
\* AgentApp.__init__, but for the queue
AppRest ==
    /\ state = AgentState0
    /\ break_end_in_flight = FALSE
    /\ autoclicker_detected = FALSE
    /\ popup = "hidden"
    /\ threads = {}
    /\ episode = 0
    /\ calls = NoCalls
    /\ unlock_fired = 0
    /\ op = Other
    /\ callers = [c \in Callers |-> IdleCaller]
    /\ flusher = IdleFlusher
    /\ call = NoCall
    /\ last_call = NoLastCall

AppInit ==
    /\ input_queue = <<>>
    /\ AppRest

\* ActivityTracker() as constructed, nothing recorded yet
TrackerInit ==
    /\ tracker = Tracker0
    /\ now = MOVE_THROTTLE_TICKS
    /\ recorded = NoRecorded
    /\ scored = NotScored

\* The tracker somewhere into a session.
InitTracker ==
    /\ AppInit
    /\ BootInit
    /\ buffer = <<>>
    /\ \E s \in Sessions, n \in SessionLengths :
          LET p == session(s, n) IN
          /\ tracker = p.tracker
          /\ recorded = [p.recorded EXCEPT !.events = 0]
          /\ now = Max(session_click_time(s, n), session_time(n))
    /\ scored = NotScored

Init ==
    /\ AppInit
    /\ TrackerInit
    /\ BootInit
    /\ buffer = <<>>

\* --------------------------------------------------------------- actions
\* The clock moves on.
Advance ==
    /\ state' = older(state, ClockStep)
    /\ op' = Other
    /\ UNCHANGED <<trk_vars, run_vars, net_vars, input_queue, break_end_in_flight, autoclicker_detected,
                   popup, threads, episode, calls, unlock_fired>>

\* A pynput listener thread puts one event into the queue.
ListenerPut ==
    /\ Len(input_queue) < MaxQueue
    /\ \E kind \in EventKinds : input_queue' = Append(input_queue, kind)
    /\ op' = Other
    /\ UNCHANGED <<trk_vars, run_vars, net_vars, state, break_end_in_flight, autoclicker_detected,
                   popup, threads, episode, calls, unlock_fired>>

\* _poll_input: one drain of the queue.
PollInput ==
    LET m == _drain_queue(App, input_queue) IN
    /\ input_queue' = drained(input_queue, state.popup_visible)
    /\ state' = m.state
    /\ threads' = m.threads
    /\ calls' = m.calls
    /\ break_end_in_flight' = m.break_end_in_flight
    /\ op' = Other
    /\ UNCHANGED <<trk_vars, run_vars, net_vars, autoclicker_detected, popup, episode, unlock_fired>>

\* _tick outside the shift window: _do_tick returns at once.
TickOutOfShift ==
    /\ InShiftMinutes(state) # DayMinutes
    /\ op' = [name |-> "tick_out"]
    /\ UNCHANGED <<trk_vars, run_vars, net_vars, state, input_queue, break_end_in_flight,
                   autoclicker_detected, popup, threads, episode, calls,
                   unlock_fired>>

\* _tick inside the shift window.
Tick ==
    /\ InShiftMinutes(state) # {}
    /\ \E sys_idle \in SysIdleSamples, locked \in BOOLEAN, score \in ScoreSamples :
            LET r == _do_tick(App, sys_idle, locked, autoclicker_detected, score)
                m == r.app
            IN  /\ m.episode <= MaxEpisodes
                /\ state' = m.state
                /\ threads' = m.threads
                /\ popup' = m.popup
                /\ episode' = m.episode
                /\ calls' = m.calls
                /\ unlock_fired' = Min(2, (IF r.locked_now THEN 0 ELSE unlock_fired)
                                          + (IF r.unlock THEN 1 ELSE 0))
                /\ op' = [name |-> "tick",
                          supplemented |-> r.supplemented,
                          current |-> r.current,
                          changed |-> r.changed,
                          elapsed |-> r.elapsed,
                          in_flight |-> r.in_flight,
                          unlock |-> r.unlock,
                          shows |-> m.shows,
                          sent |-> m.sent]
                /\ UNCHANGED <<trk_vars, run_vars, net_vars, input_queue, break_end_in_flight,
                               autoclicker_detected>>

\* _check_autoclicker: the process scan finds a known tool or none.
CheckAutoclicker ==
    /\ \E found \in BOOLEAN : autoclicker_detected' = found
    /\ op' = Other
    /\ UNCHANGED <<trk_vars, run_vars, net_vars, state, input_queue, break_end_in_flight, popup,
                   threads, episode, calls, unlock_fired>>

\* IdlePopup on_submit: the employee has picked a category and typed a
\* reason and presses Submit; the form disables the button and makes the
\* Annotate call with those values.
PopupSubmit ==
    /\ popup = "form"
    /\ calls.submits < MaxSubmits
    /\ \E category \in BREAK_REASONS, text \in ReasonTexts :
          op' = [name |-> "submit", form |-> <<category, text>>,
                 sent |-> [category |-> category, text |-> text]]
    /\ calls' = [calls EXCEPT !.submits = @ + 1, !.annotates = @ + 1]
    /\ popup' = "submitting"
    /\ UNCHANGED <<trk_vars, run_vars, net_vars, state, input_queue, break_end_in_flight,
                   autoclicker_detected, threads, episode, unlock_fired>>

\* on_submit, the Annotate call reported success: the form closes and
\* AgentApp._on_popup_submitted runs.
PopupDismiss ==
    /\ popup = "submitting"
    /\ popup' = "hidden"
    /\ state' = on_popup_submitted(state)
    /\ op' = Other
    /\ UNCHANGED <<trk_vars, run_vars, net_vars, input_queue, break_end_in_flight, autoclicker_detected,
                   threads, episode, calls, unlock_fired>>

\* on_submit, the Annotate call reported failure: "Server error. Please try
\* again.", the button is enabled again and the form stays up.
PopupSubmitFailed ==
    /\ popup = "submitting"
    /\ popup' = "form"
    /\ op' = Other
    /\ UNCHANGED <<trk_vars, run_vars, net_vars, state, input_queue, break_end_in_flight,
                   autoclicker_detected, threads, episode, calls, unlock_fired>>

\* api.py, the retry loop of a break call: the first attempt returns HTTP 200
\* and the call is over, or it fails and the loop goes on.
after_first_attempt(w, ok) ==
    IF ok \/ BREAK_ATTEMPTS <= 1 THEN {} ELSE {[w EXCEPT !.pc = "retry"]}

\* The first HTTP attempt of send_break_start.
BreakStartAttempt ==
    \E w \in threads, ok \in BOOLEAN :
        /\ w.kind = "break_start" /\ w.pc = "first"
        /\ threads' = (threads \ {w}) \cup after_first_attempt(w, ok)
        /\ op' = Other
        /\ UNCHANGED <<trk_vars, run_vars, net_vars, state, input_queue, break_end_in_flight,
                       autoclicker_detected, popup, episode, calls, unlock_fired>>

\* The rest of send_break_start: the later attempts, and on the last failure
\* network.buffer_request.
BreakStartRetries ==
    \E w \in threads :
        /\ w.kind = "break_start" /\ w.pc = "retry"
        /\ threads' = threads \ {w}
        /\ op' = Other
        /\ UNCHANGED <<trk_vars, run_vars, net_vars, state, input_queue, break_end_in_flight,
                       autoclicker_detected, popup, episode, calls, unlock_fired>>

\* The first HTTP attempt of send_break_end inside do_call; when send_break_end
\* returns, do_call's finally clears _break_end_in_flight.
BreakEndAttempt ==
    \E w \in threads, ok \in BOOLEAN :
        /\ w.kind = "break_end" /\ w.pc = "first"
        /\ threads' = (threads \ {w}) \cup after_first_attempt(w, ok)
        /\ break_end_in_flight' =
              IF after_first_attempt(w, ok) = {} THEN FALSE ELSE break_end_in_flight
        /\ op' = Other
        /\ UNCHANGED <<trk_vars, run_vars, net_vars, state, input_queue, autoclicker_detected, popup,
                       episode, calls, unlock_fired>>

\* The rest of send_break_end, then do_call's finally.
BreakEndRetries ==
    \E w \in threads :
        /\ w.kind = "break_end" /\ w.pc = "retry"
        /\ threads' = threads \ {w}
        /\ break_end_in_flight' = FALSE
        /\ op' = Other
        /\ UNCHANGED <<trk_vars, run_vars, net_vars, state, input_queue, autoclicker_detected, popup,
                       episode, calls, unlock_fired>>

\* do_heartbeat: send_heartbeat returns True or False.
HeartbeatSend ==
    \E w \in threads, success \in BOOLEAN :
        /\ w.kind = "heartbeat" /\ w.pc = "send"
        /\ success \/ state.consecutive_hb_failures < MaxHbFailures
        /\ threads' = (threads \ {w}) \cup
                         {[w EXCEPT !.pc = "flag", !.success = success, !.n = 0]}
        /\ op' = Other
        /\ UNCHANGED <<trk_vars, run_vars, net_vars, state, input_queue, break_end_in_flight,
                       autoclicker_detected, popup, episode, calls, unlock_fired>>

\* do_heartbeat, finally: heartbeat_in_flight = False.
HeartbeatClearFlag ==
    \E w \in threads :
        /\ w.kind = "heartbeat" /\ w.pc = "flag"
        /\ state' = [state EXCEPT !.heartbeat_in_flight = FALSE]
        /\ threads' = (threads \ {w}) \cup {[w EXCEPT !.pc = "count"]}
        /\ op' = Other
        /\ UNCHANGED <<trk_vars, run_vars, net_vars, input_queue, break_end_in_flight,
                       autoclicker_detected, popup, episode, calls, unlock_fired>>

\* do_heartbeat, finally: the failure counter is reset or incremented.
HeartbeatCount ==
    \E w \in threads :
        /\ w.kind = "heartbeat" /\ w.pc = "count"
        /\ state' = [state EXCEPT !.consecutive_hb_failures =
                                     IF w.success THEN 0 ELSE @ + 1]
        /\ threads' = threads \ {w}
        /\ op' = Other
        /\ UNCHANGED <<trk_vars, run_vars, net_vars, input_queue, break_end_in_flight,
                       autoclicker_detected, popup, episode, calls, unlock_fired>>

\* ------------------------------------- network.py and api.py, actions
\* A break has one start time: an Open request is made once.
fresh(r) ==
    r.method = "POST" =>
        /\ \A k \in 1..Len(buffer) : buffer[k] # r
        /\ \A c \in Callers : callers[c].req # r

\* buffer_request(method, url, payload) run from start to end by one thread.
BufferRequest ==
    \E r \in Requests :
        /\ fresh(r)
        /\ Len(buffer) < MaxBuffer
        /\ buffer' = buffer_request(buffer, r)
        /\ last_call' = [name |-> "buffer_request", arg |-> r,
                         before |-> buffer, ok |-> {}]
        /\ UNCHANGED <<trk_vars, run_vars, app_vars, callers, flusher, call>>

\* flush_buffer() run from start to end by one thread; ok are the lines
\* whose replay the server answers with 200.
FlushBuffer ==
    /\ buffer # <<>>
    /\ \E ok \in SUBSET (1..Len(buffer)) :
          /\ buffer' = flush_buffer(buffer, ok)
          /\ last_call' = [name |-> "flush_buffer", arg |-> NoRequest,
                           before |-> buffer, ok |-> ok]
    /\ UNCHANGED <<trk_vars, run_vars, app_vars, callers, flusher, call>>

\* send_break_start / send_break_reason / send_break_end is called.
CallStart ==
    /\ call.pc \in {"idle", "done"}
    /\ \E fn \in BreakCalls : \E arg \in CallArgs(fn) :
          /\ fresh(request(fn, arg))
          /\ call' = [NoCall EXCEPT !.pc = "attempt", !.fn = fn,
                                    !.req = request(fn, arg)]
    /\ UNCHANGED <<trk_vars, run_vars, app_vars, buffer, callers, flusher, last_call>>

\* One pass of `for attempt in range(3)`: the request is answered 200 and the
\* call returns True, or it fails and the loop sleeps and goes on, or it was
\* the last attempt and the call goes on to buffer the request.
CallAttempt ==
    /\ call.pc = "attempt"
    /\ \E resp \in Responses(call.fn) :
          LET attempt == Len(call.statuses) IN
          call' =
            IF returns_true(call.fn, resp)
            THEN [call EXCEPT !.statuses = Append(@, resp),
                              !.pc = "done", !.result = TRUE]
            ELSE IF attempt < BREAK_ATTEMPTS - 1
            THEN [call EXCEPT !.statuses = Append(@, resp),
                              !.slept = Append(@, backoff(attempt))]
            ELSE [call EXCEPT !.statuses = Append(@, resp), !.pc = "buffer"]
    /\ UNCHANGED <<trk_vars, run_vars, app_vars, buffer, callers, flusher, last_call>>

\* After the last failed attempt: network.buffer_request, then return False
\* (send_break_reason: True).
CallBuffer ==
    /\ call.pc = "buffer"
    /\ Len(buffer) < MaxBuffer
    /\ buffer' = buffer_request(buffer, call.req)
    /\ call' = [call EXCEPT !.pc = "done",
                            !.requested = @ + 1,
                            !.deduped = is_duplicate(buffer, call.req),
                            !.appended = Len(buffer') - Len(buffer),
                            !.result = (call.fn = "send_break_reason")]
    /\ last_call' = [name |-> "buffer_request", arg |-> call.req,
                     before |-> buffer, ok |-> {}]
    /\ UNCHANGED <<trk_vars, run_vars, app_vars, callers, flusher>>

\* A worker thread enters buffer_request.
RequestStart ==
    \E c \in Callers, r \in Requests :
        /\ callers[c].pc = "idle"
        /\ fresh(r)
        /\ callers' = [callers EXCEPT ![c] = [pc |-> "check", req |-> r]]
        /\ UNCHANGED <<trk_vars, run_vars, app_vars, buffer, flusher, call, last_call>>

\* buffer_request: read the file and compare the request with its last line.
RequestCheck ==
    \E c \in Callers :
        /\ callers[c].pc = "check"
        /\ callers' = [callers EXCEPT ![c].pc =
                          IF is_duplicate(buffer, callers[c].req)
                          THEN "done" ELSE "append"]
        /\ UNCHANGED <<trk_vars, run_vars, app_vars, buffer, flusher, call, last_call>>

\* buffer_request: open the file for append and write the line.
RequestAppend ==
    \E c \in Callers :
        /\ callers[c].pc = "append"
        /\ Len(buffer) < MaxBuffer
        /\ buffer' = Append(buffer, callers[c].req)
        /\ callers' = [callers EXCEPT ![c].pc = "done"]
        /\ UNCHANGED <<trk_vars, run_vars, app_vars, flusher, call, last_call>>

\* The flush thread of _on_reconnect enters flush_buffer and reads the file.
FlushStart ==
    /\ flusher.pc \in {"idle", "done"}
    /\ buffer # <<>>
    /\ flusher' = [IdleFlusher EXCEPT !.pc = "replay", !.lines = buffer]
    /\ UNCHANGED <<trk_vars, run_vars, app_vars, buffer, callers, call, last_call>>

\* flush_buffer: one line of the replay loop.
FlushReplay ==
    /\ flusher.pc = "replay"
    /\ flusher.i <= Len(flusher.lines)
    /\ \E delivered \in BOOLEAN :
          flusher' = [flusher EXCEPT
                        !.i = @ + 1,
                        !.still_failed =
                            IF kept(flusher.lines[flusher.i], delivered)
                            THEN Append(@, flusher.lines[flusher.i]) ELSE @]
    /\ UNCHANGED <<trk_vars, run_vars, app_vars, buffer, callers, call, last_call>>

\* flush_buffer: the file is rewritten with still_failed, or unlinked.
FlushWrite ==
    /\ flusher.pc = "replay"
    /\ flusher.i > Len(flusher.lines)
    /\ buffer' = flusher.still_failed
    /\ flusher' = [flusher EXCEPT !.pc = "done", !.before = buffer]
    /\ UNCHANGED <<trk_vars, run_vars, app_vars, callers, call, last_call>>

\* _poll_input with a backlog in the queue: _drain_queue, the tracker
\* calls it makes included.
Drain ==
    LET m == _drain_queue(App, input_queue)
        b == batch(input_queue, state.popup_visible)
    IN  /\ input_queue' = drained(input_queue, state.popup_visible)
        /\ tracker' = handle_all(tracker, b, 1, Len(b), now)
        /\ state' = m.state
        /\ threads' = m.threads
        /\ calls' = m.calls
        /\ break_end_in_flight' = m.break_end_in_flight
        /\ op' = [name |-> "drain",
                  visible |-> state.popup_visible,
                  before |-> input_queue,
                  handled |-> b,
                  clicks_before |-> tracker.click_positions]
        /\ UNCHANGED <<net_vars, run_vars, now, recorded, scored,
                       autoclicker_detected, popup, episode, unlock_fired>>

\* A pynput listener thread queues an event while the form is up: typing
\* the reason, the click on Submit.
ListenerPutFormInput ==
    /\ state.popup_visible
    /\ Len(input_queue) < MaxQueue
    /\ \E i \in 1..Cardinality(EventKinds) :
          input_queue' = Append(input_queue, event(i))
    /\ op' = Other
    /\ UNCHANGED <<trk_vars, run_vars, net_vars, state, break_end_in_flight,
                   autoclicker_detected, popup, threads, episode, calls,
                   unlock_fired>>

\* ---------------------------------------- connectivity monitoring, actions
\* what a probe the check may or may not have made came back with
probed(made, online_now) ==
    IF ~made THEN "not made" ELSE IF online_now THEN "up" ELSE "down"

\* _check_connectivity: first and second are what network.is_online returns
\* in the detection branch and in the recovery branch. A check starts
\* workers only when those of the earlier checks have finished.
CheckConnectivity ==
    \E server_url \in ServerUrls, first \in BOOLEAN, second \in BOOLEAN :
        LET m == _do_connectivity_check(App, server_url, first, second)
            detecting == /\ server_url # ""
                         /\ state.consecutive_hb_failures >= OFFLINE_AFTER_FAILURES
                         /\ state.online
            recovering == /\ server_url # ""
                          /\ ~detect_offline(App, first).state.online
        IN  /\ m.link.episodes <= MaxOffline
            /\ \/ m.threads = threads
               \/ Cardinality(offline_workers(threads)) <= MaxPendingWorkers
            /\ (detecting \/ first) /\ (recovering \/ second)
            /\ state' = m.state
            /\ threads' = m.threads
            /\ link' = m.link
            /\ op' = IF detecting \/ recovering
                     THEN [name |-> "check",
                           first |-> probed(detecting, first),
                           second |-> probed(recovering, second)]
                     ELSE Other
            /\ UNCHANGED <<trk_vars, runner, recovery, net_vars, input_queue,
                           break_end_in_flight, autoclicker_detected, popup,
                           episode, calls, unlock_fired>>

\* startedAt of the Open of offline episode e
offline_since_of(e) == IF e % 2 = 1 THEN "09:00" ELSE "09:05"

\* a break call that ran out of attempts ends in network.buffer_request
after_call(buf, ok, fn, arg) ==
    IF ok THEN buf ELSE buffer_request(buf, request(fn, arg))

\* send_break_start of an offline break, from its first attempt to its return.
OfflineBreakStart ==
    \E w \in threads, ok \in BOOLEAN :
        /\ w.kind = "offline_break_start"
        /\ ok \/ Len(buffer) < MaxBacklogOffline
        /\ buffer' = after_call(buffer, ok, "send_break_start",
                                offline_since_of(w.ep))
        /\ threads' = threads \ {w}
        /\ op' = Other
        /\ UNCHANGED <<trk_vars, run_vars, callers, flusher, call, last_call,
                       state, input_queue, break_end_in_flight,
                       autoclicker_detected, popup, episode, calls,
                       unlock_fired>>

\* end_offline_break: send_break_reason("Others", "Internet disconnection
\* (auto-detected)") and then send_break_end, each from its first attempt to
\* its return.
EndOfflineBreak ==
    \E w \in threads, ok_reason \in BOOLEAN, ok_end \in BOOLEAN :
        LET b1 == after_call(buffer, ok_reason, "send_break_reason", "General")
            b2 == after_call(b1, ok_end, "send_break_end", "")
        IN  /\ w.kind = "end_offline_break"
            /\ Len(b2) <= MaxBacklogOffline
            /\ buffer' = b2
            /\ threads' = threads \ {w}
            /\ link' = [link EXCEPT !.log = @ \o <<<<"annotate", w.ep>>,
                                                   <<"close", w.ep>>>>]
            /\ op' = Other
            /\ UNCHANGED <<trk_vars, runner, recovery, callers, flusher, call,
                           last_call, state, input_queue, break_end_in_flight,
                           autoclicker_detected, popup, episode, calls,
                           unlock_fired>>

\* _on_reconnect.flush: after the two seconds, network.flush_buffer().
FlushAfterReconnect ==
    \E w \in threads :
        /\ w.kind = "flush"
        /\ \E ok \in SUBSET (1..Len(buffer)) :
              buffer' = flush_buffer(buffer, ok)
        /\ threads' = threads \ {w}
        /\ op' = Other
        /\ UNCHANGED <<trk_vars, run_vars, callers, flusher, call, last_call,
                       state, input_queue, break_end_in_flight,
                       autoclicker_detected, popup, episode, calls,
                       unlock_fired>>

\* ------------------------------------------------ recover_downtime, action
\* the requests the recovery's break calls leave in the buffer: those that
\* were not answered with 200
recovery_backlog(buf, made, ok, ok_reason, ok_end) ==
    IF Len(made) = 1 THEN buf
    ELSE LET b1 == after_call(buf, ok, "send_break_start", ToString(made[1][2]))
         IN  IF ~ok THEN b1
             ELSE after_call(
                      after_call(b1, ok_reason, "send_break_reason", "General"),
                      ok_end, "send_break_end", "")

\* recover_downtime(config, shift_info) from start to end; main() calls it
\* once, before the application is built.
RecoverDowntime ==
    /\ recovery.pc = "start"
    /\ \E last_alive \in AliveTimes, gap \in Gaps,
          shift_info \in RecoveryShiftInfos,
          ok \in BOOLEAN, ok_reason \in BOOLEAN, ok_end \in BOOLEAN :
          LET made == recover_downtime(last_alive, gap, shift_info, ok)
          IN  /\ (last_alive = None) => (gap = 0 /\ shift_info = None)
              /\ (Len(made) = 1) => ok
              /\ ~(Len(made) = 4) => (ok_reason /\ ok_end)
              /\ recovery' = [pc |-> "done",
                              last_alive |-> last_alive,
                              gap |-> gap,
                              shift_info |-> shift_info,
                              ok |-> ok,
                              made |-> made]
              /\ buffer' = recovery_backlog(buffer, made, ok, ok_reason, ok_end)
    /\ op' = Other
    /\ UNCHANGED <<trk_vars, runner, link, callers, flusher, call, last_call,
                   state, input_queue, break_end_in_flight,
                   autoclicker_detected, popup, threads, episode, calls,
                   unlock_fired>>

\* ------------------------------------------------- runner.py, actions
\* main() raises an Exception elapsed seconds after it was started.
MainCrashes ==
    /\ runner.pc = "main"
    /\ runner.crash_count < MaxCrashes
    /\ \E elapsed \in RunTimes :
          LET n == counted(runner.crash_count, elapsed) IN
          runner' = [runner EXCEPT
                        !.pc = "sleep",
                        !.elapsed = elapsed,
                        !.crash_count = n,
                        !.wait = restart_wait(n),
                        !.last = "Exception",
                        !.waits = IF elapsed > CRASH_WINDOW
                                  THEN <<restart_wait(n)>>
                                  ELSE Append(@, restart_wait(n))]
    /\ UNCHANGED <<app_vars, net_vars, trk_vars, link, recovery>>

\* time.sleep(wait) is over: the session is reset and main() starts again.
Restart ==
    /\ runner.pc = "sleep"
    /\ runner' = [runner EXCEPT !.pc = "main"]
    /\ UNCHANGED <<app_vars, net_vars, trk_vars, link, recovery>>

\* Ctrl-C while the handler is inside time.sleep(wait): the KeyboardInterrupt
\* is raised in the except block, where nothing catches it.
SleepInterrupted ==
    /\ runner.pc = "sleep"
    /\ runner' = [runner EXCEPT !.pc = "stopped", !.last = "KeyboardInterrupt"]
    /\ UNCHANGED <<app_vars, net_vars, trk_vars, link, recovery>>

\* main() raises SystemExit: sys.exit(0) of a second instance, sys.exit(1)
\* of a cancelled enrollment, or a bare sys.exit().
MainExits ==
    /\ runner.pc = "main"
    /\ \E code \in ExitCodes :
          /\ runner' = on_system_exit(runner, code)
          /\ runner' # runner
    /\ UNCHANGED <<app_vars, net_vars, trk_vars, link, recovery>>

\* main() returns, or KeyboardInterrupt reaches the loop: break.
MainReturns ==
    /\ runner.pc = "main"
    /\ \E how \in {"return", "KeyboardInterrupt"} :
          runner' = [runner EXCEPT !.pc = "stopped", !.last = how]
    /\ UNCHANGED <<app_vars, net_vars, trk_vars, link, recovery>>

\* ------------------------------------------------- tracker.py, actions
MoveXs == {0, 2}
ClickSpots == {<<5, 5>>, <<25, 5>>}

\* The clock of time.time() moves on by one tick.
ClockTick ==
    /\ recorded.ticks < MaxTicks
    /\ now' = now + 1
    /\ recorded' = [recorded EXCEPT !.ticks = @ + 1]
    /\ UNCHANGED <<app_vars, net_vars, run_vars, tracker, scored>>

\* _drain_queue hands a move event to on_mouse_move; the listener stamped
\* the event when it happened, ts, at most a tick before it is handled.
OnMouseMove ==
    /\ recorded.events < MaxEvents
    /\ \E x \in MoveXs, ts \in {now - 1, now} :
          /\ ts >= recorded.last_ts
          /\ tracker' = on_mouse_move(tracker, x, 0, now)
          /\ recorded' = noted_move(recorded, tracker, x, 0, now, ts)
    /\ scored' = NotScored
    /\ UNCHANGED <<app_vars, net_vars, run_vars, now>>

OnMouseClick ==
    /\ recorded.events < MaxEvents
    /\ \E spot \in ClickSpots :
          /\ tracker' = on_mouse_click(tracker, spot[1], spot[2], now)
          /\ recorded' = noted_click(recorded, spot[1], spot[2], now)
    /\ scored' = NotScored
    /\ UNCHANGED <<app_vars, net_vars, run_vars, now>>

OnMouseScroll ==
    /\ recorded.events < MaxEvents
    /\ tracker' = on_mouse_scroll(tracker)
    /\ recorded' = [recorded EXCEPT !.events = @ + 1]
    /\ scored' = NotScored
    /\ UNCHANGED <<app_vars, net_vars, run_vars, now>>

OnKeyEvent ==
    /\ recorded.events < MaxEvents
    /\ tracker' = on_key_event(tracker)
    /\ recorded' = [recorded EXCEPT !.events = @ + 1]
    /\ scored' = NotScored
    /\ UNCHANGED <<app_vars, net_vars, run_vars, now>>

\* The heartbeat branch of _do_tick asks for the score.
CalculateActivityScore ==
    LET r == calculate_activity_score(tracker) IN
    /\ recorded.events < MaxEvents
    /\ tracker' = r.tracker
    /\ scored' = [called |-> TRUE, before |-> tracker, score |-> r.score]
    /\ recorded' = [recorded EXCEPT !.events = @ + 1]
    /\ UNCHANGED <<app_vars, net_vars, run_vars, now>>

\* The machine is suspended and resumed, or just left alone for a second.
Suspend ==
    /\ \E d \in GapSteps :
          /\ state.last_monotonic_ts + d <= MaxGap
          /\ state' = slept_through(state, d)
    /\ UNCHANGED <<trk_vars, run_vars, net_vars, input_queue, break_end_in_flight,
                   autoclicker_detected, popup, threads, episode, calls,
                   unlock_fired, op>>

\* state.record_activity(), as _drain_queue calls it for an input event.
RecordActivity ==
    /\ state' = record_activity(state)
    /\ UNCHANGED <<trk_vars, run_vars, net_vars, input_queue, break_end_in_flight,
                   autoclicker_detected, popup, threads, episode, calls,
                   unlock_fired, op>>

Next ==
    \/ Advance
    \/ ListenerPut
    \/ PollInput
    \/ TickOutOfShift
    \/ Tick
    \/ CheckAutoclicker
    \/ PopupSubmit
    \/ PopupDismiss
    \/ PopupSubmitFailed
    \/ BreakStartAttempt
    \/ BreakStartRetries
    \/ BreakEndAttempt
    \/ BreakEndRetries
    \/ HeartbeatSend
    \/ HeartbeatClearFlag
    \/ HeartbeatCount
    \/ BufferRequest
    \/ FlushBuffer
    \/ CallStart
    \/ CallAttempt
    \/ CallBuffer
    \/ RequestStart
    \/ RequestCheck
    \/ RequestAppend
    \/ FlushStart
    \/ FlushReplay
    \/ FlushWrite
    \/ Suspend
    \/ RecordActivity
    \/ ClockTick
    \/ OnMouseMove
    \/ OnMouseClick
    \/ OnMouseScroll
    \/ OnKeyEvent
    \/ CalculateActivityScore
    \/ Drain
    \/ ListenerPutFormInput
    \/ CheckConnectivity
    \/ OfflineBreakStart
    \/ EndOfflineBreak
    \/ FlushAfterReconnect
    \/ RecoverDowntime
    \/ MainCrashes
    \/ Restart
    \/ SleepInterrupted
    \/ MainExits
    \/ MainReturns

Spec == Init /\ [][Next]_vars

\* The popup and break lifecycle.  The heartbeat workers write only the
\* heartbeat bookkeeping of AgentState, which no popup or break decision
\* reads, so here they are left at their slowest: started, never finishing.
NextPopup ==
    \/ Advance
    \/ ListenerPut
    \/ PollInput
    \/ Tick
    \/ PopupSubmit
    \/ PopupDismiss
    \/ PopupSubmitFailed

SpecPopup == Init /\ [][NextPopup]_vars

\* The break calls: the popup lifecycle together with the workers that send
\* Open and Close.  Every tick is inside the shift window; a tick outside it
\* returns before it reads or writes anything.
NextBreak ==
    \/ Advance
    \/ ListenerPut
    \/ PollInput
    \/ Tick
    \/ PopupSubmit
    \/ PopupDismiss
    \/ PopupSubmitFailed
    \/ BreakStartAttempt
    \/ BreakStartRetries
    \/ BreakEndAttempt
    \/ BreakEndRetries

SpecBreak == Init /\ [][NextBreak]_vars

\* The heartbeat cadence.  A heartbeat decision reads the popup lifecycle only
\* through the classified state (system_locked and the idle timer), and the
\* break workers write only _break_end_in_flight, which it does not read.
\* Here the form, once shown, stays up (the employee does not submit it) and
\* the break workers are left at their slowest; locking, unlocking, input and
\* the clock still take the classified state through every change.  Every
\* tick is inside the shift window.
NextHeartbeat ==
    \/ Advance
    \/ ListenerPut
    \/ PollInput
    \/ Tick
    \/ CheckAutoclicker
    \/ HeartbeatSend
    \/ HeartbeatClearFlag
    \/ HeartbeatCount

SpecHeartbeat == Init /\ [][NextHeartbeat]_vars

\* The buffer file as a previous run left it: absent, or ending in a line
\* that a power loss cut short.
InitBuffer ==
    /\ AppInit
    /\ TrackerInit
    /\ BootInit
    /\ buffer \in {<<>>, <<CorruptLine>>}

\* The functions of network.py and api.py, called one at a time.
NextNetwork ==
    \/ BufferRequest
    \/ FlushBuffer
    \/ CallStart
    \/ CallAttempt
    \/ CallBuffer

SpecNetwork == InitBuffer /\ [][NextNetwork]_vars

\* The same file under the threads that reach it: the workers whose call
\* ends in buffer_request, and the flush thread.
NextBufferThreads ==
    \/ RequestStart
    \/ RequestCheck
    \/ RequestAppend
    \/ FlushStart
    \/ FlushReplay
    \/ FlushWrite

SpecBufferThreads == InitBuffer /\ [][NextBufferThreads]_vars

\* main() has copied the shift it fetched into the state before app.run().
InitShift ==
    /\ input_queue = <<>>
    /\ break_end_in_flight = FALSE
    /\ autoclicker_detected = FALSE
    /\ popup = "hidden"
    /\ threads = {}
    /\ episode = 0
    /\ calls = NoCalls
    /\ unlock_fired = 0
    /\ op = Other
    /\ callers = [c \in Callers |-> IdleCaller]
    /\ flusher = IdleFlusher
    /\ call = NoCall
    /\ last_call = NoLastCall
    /\ TrackerInit
    /\ BootInit
    /\ buffer = <<>>
    /\ \E info \in ShiftInfos :
          state = [AgentState0 EXCEPT
                      !.shift_start = info.shiftStart,
                      !.shift_end = info.shiftEnd,
                      !.shift_crosses_midnight = info.crossesMidnight]

\* The popup lifecycle under a shift: ticks inside and outside the window.
NextShift ==
    \/ Advance
    \/ ListenerPut
    \/ PollInput
    \/ TickOutOfShift
    \/ Tick
    \/ PopupSubmit
    \/ PopupDismiss
    \/ PopupSubmitFailed

SpecShift == InitShift /\ [][NextShift]_vars

\* The restart loop around main().
NextRunner ==
    \/ MainCrashes
    \/ Restart
    \/ SleepInterrupted
    \/ MainExits
    \/ MainReturns

SpecRunner == Init /\ [][NextRunner]_vars

\* A producer has flooded the queue.
InitDrain ==
    /\ AppRest
    /\ TrackerInit
    /\ BootInit
    /\ buffer = <<>>
    /\ \E n \in 0..MaxBacklog : input_queue = Backlog(n)

\* The poll of the input queue alone.
NextDrain ==
    \/ Drain

SpecDrain == InitDrain /\ [][NextDrain]_vars

\* Connectivity: the heartbeats and their failure counter, the periodic
\* check, and the workers of the offline break.
NextConnectivity ==
    \/ Tick
    \/ HeartbeatSend
    \/ HeartbeatClearFlag
    \/ HeartbeatCount
    \/ CheckConnectivity
    \/ OfflineBreakStart
    \/ EndOfflineBreak
    \/ FlushAfterReconnect

SpecConnectivity == Init /\ [][NextConnectivity]_vars

\* The start of the process: the downtime recovery.
NextRecovery ==
    \/ RecoverDowntime

SpecRecovery == Init /\ [][NextRecovery]_vars

\* The employee touches the machine only while the form is up: every event
\* that is ever queued was made while the popup was visible.
NextFormInput ==
    \/ Advance
    \/ Tick
    \/ ListenerPutFormInput
    \/ Drain
    \/ PopupSubmit
    \/ PopupDismiss
    \/ PopupSubmitFailed

SpecFormInput == Init /\ [][NextFormInput]_vars

\* The tracker alone: events handed to it and scoring calls.
NextTracker ==
    \/ ClockTick
    \/ OnMouseMove
    \/ OnMouseClick
    \/ OnMouseScroll
    \/ OnKeyEvent
    \/ CalculateActivityScore

SpecTracker == InitTracker /\ [][NextTracker]_vars

\* The idle clock alone, with gaps of any size up to MaxGap.
NextIdle ==
    \/ Suspend
    \/ RecordActivity

SpecIdle == Init /\ [][NextIdle]_vars

\* ---------------------------------------------------------------- claims
\* a drain that consumed queued input
DrainedInput == Len(input_queue') < Len(input_queue)

\* a Close worker for the current episode is started by this step
CloseDispatched == CloseThread(episode) \in threads' \ threads

\* C1: can_show_popup() is false right after on_popup_shown() and, once false,
\* becomes true again only in a drain of real input that runs on_user_active()
\* while awaiting_first_activity is set (which only on_popup_submitted() sets);
\* no tick, lock change, submission or system-idle reset restores it.
C1_BlockedUntilUserActive ==
    [][ /\ (episode' # episode => ~can_show_popup(state'))
        /\ (~can_show_popup(state) /\ can_show_popup(state')) =>
              /\ state.awaiting_first_activity
              /\ ~state.popup_visible
              /\ calls.annotates >= 1
              /\ DrainedInput
              /\ state' = on_user_active(record_activity(state)) ]_vars

C1_Witness ==
    episode >= 1 /\ calls.annotates = 1 /\ can_show_popup(state)

\* C4: in every reachable state popup_allowed is false exactly while a popup
\* episode is unresolved: popup_allowed = ~(popup_visible \/ awaiting).
C4_AllowedIffResolved ==
    state.popup_allowed =
        ~(state.popup_visible \/ state.awaiting_first_activity)

C4_Witness ==
    /\ ~state.popup_allowed
    /\ state.awaiting_first_activity
    /\ ~state.popup_visible

\* C5: popup_visible and awaiting_first_activity are never both true.
C5_VisibleXorAwaiting ==
    ~(state.popup_visible /\ state.awaiting_first_activity)

C5_Witness ==
    /\ episode > 1
    /\ state.popup_visible
    /\ ~state.awaiting_first_activity

\* C6: a tick calls _show_popup at most once, also when the unlock trigger and
\* the idle-timeout trigger both hold; a tick that observes the unlock while
\* can_show_popup() holds shows exactly one popup; and one lock/unlock cycle
\* takes the unlock branch on at most one tick.
C6_OnePopupPerUnlock ==
    [][ op'.name = "tick" =>
          /\ op'.shows <= 1
          /\ (op'.unlock /\ can_show_popup(state)) =>
                (op'.shows = 1 /\ episode' = episode + 1
                 /\ calls'.trigger = "unlock")
          /\ unlock_fired' <= 1 ]_vars

C6_Witness ==
    /\ op.name = "tick"
    /\ op.unlock
    /\ op.shows = 1
    /\ idle_seconds(state) >= IDLE_THRESHOLD_SEC
    /\ unlock_fired = 1

\* C2 (as stated): once an idle-timeout episode in which the employee
\* submitted the form once is over (input was drained after the submission),
\* exactly one Open, one Annotate and one Close have been dispatched for it.
C2_OneOpenAnnotateClose ==
    (calls.trigger = "idle" /\ calls.submits = 1 /\ can_show_popup(state)) =>
        (calls.opens = 1 /\ calls.annotates = 1 /\ calls.closes = 1)

\* C3 (as stated): whenever a Close worker makes its first HTTP attempt, the
\* Open worker of the same episode has already made its first attempt.
C3_CloseAfterOpenAttempt ==
    [][ \A w \in threads :
           (w.kind = "break_end" /\ w.pc = "first" /\ w \notin threads') =>
               OpenThread(w.ep) \notin threads ]_vars

\* C7 (as stated): the drain that consumes the first input while
\* awaiting_first_activity flips the state fully to Active and dispatches a
\* Close call.
C7_FirstInputEndsBreak ==
    [][ (state.awaiting_first_activity /\ ~state.popup_visible /\ DrainedInput) =>
          /\ ~state'.awaiting_first_activity
          /\ state'.popup_allowed
          /\ ~state'.was_locked
          /\ ~state'.lock_popup_handled
          /\ idle_seconds(state') = 0
          /\ CloseDispatched ]_vars

C9_NoOverlappingSends ==
    /\ Cardinality(sending(threads)) <= 1
    /\ \A w \in sending(threads) : w.n = 0 /\ state.heartbeat_in_flight
    /\ (op.name = "tick" /\ op.sent # {}) =>
          ((op.changed \/ op.elapsed) /\ ~op.in_flight)

C9_Witness ==
    /\ sending(threads) # {}
    /\ \E w \in threads : w.kind = "heartbeat" /\ w.pc = "count"
    /\ op.name = "tick" /\ op.sent # {}

\* C10 (as stated): a tick that finds the classified state different from
\* last_heartbeat_state with no heartbeat in flight dispatches a heartbeat
\* whose state is the classified state.
C10_ChangeCarriesClassifiedState ==
    (op.name = "tick" /\ op.changed /\ ~op.in_flight) =>
        \E h \in op.sent : h.s = op.current

\* C10 (amended): such a tick dispatches exactly one heartbeat in the same
\* tick, interval elapsed or not; it carries the classified state, except
\* that an ACTIVE classification is sent as SUSPICIOUS when an auto-clicker is
\* detected or the activity score is below 30.
C10_ChangeDispatchesAtOnce ==
    (op.name = "tick" /\ op.changed /\ ~op.in_flight) =>
        /\ Cardinality(op.sent) = 1
        /\ \A h \in op.sent :
              /\ h.s \in {op.current, "SUSPICIOUS"}
              /\ (h.s = "SUSPICIOUS") <=>
                    (op.current = "ACTIVE" /\ (h.cheat \/ h.sc < SUSPICIOUS_BELOW))
        /\ state.last_heartbeat_state = op.current

C10_Witness ==
    /\ op.name = "tick"
    /\ op.changed /\ ~op.elapsed /\ ~op.in_flight
    /\ op.current = "IDLE"
    /\ \E h \in op.sent : h.s = "IDLE"

\* C11: a tick that classifies the state as ACTIVE while the detected
\* auto-clicker list is non-empty sends every heartbeat it dispatches with
\* state SUSPICIOUS, score 0 and the auto-clicker flag, whatever
\* calculate_activity_score returned.
C11_AutoclickerForcesSuspicious ==
    (op.name = "tick" /\ autoclicker_detected /\ op.current = "ACTIVE") =>
        \A h \in op.sent : h.s = "SUSPICIOUS" /\ h.sc = 0 /\ h.cheat

C11_Witness ==
    /\ op.name = "tick"
    /\ autoclicker_detected
    /\ op.current = "ACTIVE"
    /\ \E h \in op.sent : h.s = "SUSPICIOUS" /\ h.sc = 0

\* C13 (as stated): no step of a worker thread started for an outbound call
\* changes any field of AgentState.
C13_WorkersNeverWriteState ==
    [][ (HeartbeatSend \/ HeartbeatClearFlag \/ HeartbeatCount) =>
            state' = state ]_vars

\* C18 (as stated): whatever the outcome of the Annotate call, once it has
\* returned the form is dismissed; a failed call never leaves the form up.
C18_FailedAnnotateDismisses ==
    [][ (popup = "submitting" /\ popup' # "submitting") =>
            popup' = "hidden" ]_vars

\* C12 (as stated): break_active is true exactly when the Open call of the
\* current popup episode has been dispatched and its Close call has not.
C12_BreakActiveIffOpen ==
    state.break_active <=> (calls.opens = 1 /\ calls.closes = 0)

InBufferRequest == {c \in Callers : callers[c].pc \in {"check", "append"}}
InFlushBuffer == flusher.pc = "replay"
SameRequest(a, b) ==
    a.method = b.method /\ a.url = b.url /\ a.payload = b.payload
AllFailed(statuses) ==
    /\ Len(statuses) = BREAK_ATTEMPTS
    /\ \A k \in 1..Len(statuses) : ~is_http_200(statuses[k])

\* C14: the offline buffer is never touched in parallel: at any moment at
\* most one thread is inside buffer_request or flush_buffer.
C14_BufferNeverTouchedInParallel ==
    Cardinality(InBufferRequest) + (IF InFlushBuffer THEN 1 ELSE 0) <= 1

\* C15: when flush_buffer writes the buffer back, what remains is, in order,
\* every entry whose replay failed followed by every entry appended while
\* the flush was running.
C15_UnsentEntriesRemainInOrder ==
    [][(flusher.pc = "replay" /\ flusher'.pc = "done") =>
          buffer' = flusher.still_failed \o
                    SubSeq(buffer, Len(flusher.lines) + 1, Len(buffer))]_vars

C17_ThreeAttemptsThenBuffered ==
    call.pc = "done" =>
        /\ Len(call.statuses) <= BREAK_ATTEMPTS
        /\ \A k \in 1..(Len(call.statuses) - 1) : ~is_http_200(call.statuses[k])
        /\ call.slept = SubSeq(<<2, 4>>, 1, Len(call.statuses) - 1)
        /\ call.appended = 1 <=> AllFailed(call.statuses)
        /\ call.appended \in {0, 1}

\* C19: after flush_buffer no unparseable entry is left in the buffer.
C19_CorruptEntryDropped ==
    last_call.name = "flush_buffer" =>
        \A k \in 1..Len(buffer) : buffer[k].parses

\* C20: idle_seconds never exceeds 600, whatever the gap between the
\* monotonic clock and last_monotonic_ts, and is the gap itself below 600.
C20_IdleSecondsCapped ==
    /\ idle_seconds(state) <= IDLE_CAP
    /\ state.last_monotonic_ts < IDLE_CAP =>
          idle_seconds(state) = state.last_monotonic_ts

\* the gap is 10,000 s and idle_seconds reads 600
C20_Witness ==
    /\ state.last_monotonic_ts = MaxGap
    /\ idle_seconds(state) = IDLE_CAP

InRange(subs) == \A i \in 1..Len(subs) : subs[i] \in 0..20
Counters(tr) == <<tr.key_count, tr.mouse_count, tr.scroll_count>>

\* C21 as stated: calculate_activity_score returns an integer in [0,100]
\* that is the sum of the five sub-scores, each in [0,20], and never raises.
C21_ScoreIsSumOfSubScores ==
    scored.called =>
        /\ scored.score \in 0..100
        /\ InRange(sub_scores(scored.before))
        /\ scored.score = Sum(sub_scores(scored.before))

\* C21, amended: calculate_activity_score never raises and returns an
\* integer in [0,100]: 100 when there were no events this period and fewer
\* than 3 click samples, and otherwise the sum of the five sub-scores, each
\* in [0,20].
C21_ScoreInRange ==
    scored.called =>
        /\ scored.score \in 0..100
        /\ InRange(sub_scores(scored.before))
        /\ scored.score = IF no_data(scored.before) THEN 100
                          ELSE Sum(sub_scores(scored.before))

\* a score was computed from three or more clicks that all carry the same
\* time (mean interval zero)
C21_Witness ==
    /\ scored.called
    /\ ~no_data(scored.before)
    /\ Len(scored.before.click_times) >= 3
    /\ Sum(intervals(scored.before.click_times)) = 0

\* C22: with fewer than 3 click samples and the three period counters
\* summing to zero, calculate_activity_score returns 100.
C22_NoDataScoresFull ==
    (/\ scored.called
     /\ Len(scored.before.click_times) < 3
     /\ Sum(Counters(scored.before)) = 0)
        => scored.score = 100

\* the score was asked for with two old clicks in the buffer and nothing
\* counted since the last call
C22_Witness ==
    /\ scored.called
    /\ Len(scored.before.click_times) = 2
    /\ Sum(Counters(scored.before)) = 0
    /\ scored.score = 100

\* C23: every call of calculate_activity_score, the early return of 100
\* included, resets the three counters to zero and leaves the three buffers
\* as they were.
C23_ScoringResetsCountersOnly ==
    scored.called =>
        /\ Counters(tracker) = <<0, 0, 0>>
        /\ tracker.click_times = scored.before.click_times
        /\ tracker.click_positions = scored.before.click_positions
        /\ tracker.move_positions = scored.before.move_positions

\* a call that took the early return, with counters that were zero already
\* and samples in the buffers, and one that did not
C23_Witness ==
    /\ scored.called
    /\ no_data(scored.before)
    /\ Len(tracker.click_times) > 0
    /\ Len(tracker.move_positions) > 0

\* C24: each buffer holds at most 30 entries, the most recently recorded
\* samples of its kind in insertion order; and a counter only goes down in
\* a scoring call.
C24_BuffersHoldLatestSamples ==
    /\ [](/\ Len(tracker.click_times) <= PATTERN_BUFFER_SIZE
          /\ Len(tracker.click_positions) <= PATTERN_BUFFER_SIZE
          /\ Len(tracker.move_positions) <= PATTERN_BUFFER_SIZE
          /\ tracker.click_times =
                LastN(recorded.click_times, PATTERN_BUFFER_SIZE)
          /\ tracker.click_positions =
                LastN(recorded.click_positions, PATTERN_BUFFER_SIZE)
          /\ tracker.move_positions =
                LastN(recorded.move_positions, PATTERN_BUFFER_SIZE))
    /\ [][\/ \A i \in 1..3 : Counters(tracker')[i] >= Counters(tracker)[i]
          \/ scored'.called /\ scored'.before = tracker]_vars

\* a click arrived with the buffer full and pushed the oldest one out
C24_Witness ==
    /\ Len(recorded.click_times) > PATTERN_BUFFER_SIZE
    /\ Len(tracker.click_times) = PATTERN_BUFFER_SIZE
    /\ recorded.events > 0
    /\ tracker.click_times[PATTERN_BUFFER_SIZE] = now

\* C25: moves are throttled in the event's own timestamp: two consecutive
\* samples of the move buffer come from events at least 500 ms apart, and a
\* move inside the throttle window is neither buffered nor counted.
C25_MovesThrottledInEventTime ==
    /\ \A i \in 1..(Len(recorded.move_ts) - 1) :
          recorded.move_ts[i + 1] - recorded.move_ts[i] >= MOVE_THROTTLE_TICKS
    /\ tracker.move_positions =
          LastN(recorded.move_positions, PATTERN_BUFFER_SIZE)

\* C26: with 10 clicks buffered, the position sub-score is 0 when all are
\* in one 20-pixel cell and 20 when they are spread over 6 cells or more.
C26_PositionSubScore ==
    LET p == tracker.click_positions IN
    Len(p) = 10 =>
        /\ Cardinality(cells(p)) = 1 => _score_position_diversity(p) = 0
        /\ Cardinality(cells(p)) >= 6 => _score_position_diversity(p) = 20

IsClick(ev) == ev[1] = "click"
ClickPositions(events) ==
    LET cs == SelectSeq(events, IsClick)
    IN  [i \in 1..Len(cs) |-> <<cs[i][2], cs[i][3]>>]

C28_LockedTickIsIdle ==
    (op.name = "tick" /\ state.system_locked) =>
        /\ op.current = "IDLE"
        /\ op.shows = 0

\* the tick found the system locked right after input was recorded
C28_Witness ==
    /\ op.name = "tick"
    /\ state.system_locked
    /\ idle_seconds(state) = 0
    /\ op.current = "IDLE"

ShiftUnset == state.shift_start = None \/ state.shift_end = None

\* C29: a tick outside the shift window changes no AgentState field, shows
\* no popup and dispatches nothing; and with shift_start or shift_end unset
\* no tick is outside the shift.
C29_OutOfShiftTickDoesNothing ==
    [][op'.name = "tick_out" =>
          /\ ~ShiftUnset
          /\ state' = state
          /\ popup' = popup
          /\ threads' = threads
          /\ episode' = episode
          /\ calls' = calls]_vars

\* a tick came outside the shift with the idle threshold passed and a popup
\* allowed, and did nothing
C29_Witness ==
    /\ op.name = "tick_out"
    /\ idle_seconds(state) >= IDLE_THRESHOLD_SEC
    /\ can_show_popup(state)
    /\ popup = "hidden"

\* C30: after a crash main() is restarted after a wait that grows
\* exponentially with the number of rapid crashes in a row (each wait below
\* the bound is the one before it times a fixed factor), is bounded above,
\* and the crash count starts again once a run has outlasted the healthy-run
\* window of 120 s.
C30_ExponentialBoundedBackoff ==
    runner.pc = "sleep" =>
        /\ runner.wait <= LONG_WAIT
        /\ runner.elapsed > CRASH_WINDOW => runner.crash_count = 1
        /\ \A i \in 2..(Len(runner.waits) - 1) :
              runner.waits[i + 1] < LONG_WAIT =>
                  runner.waits[i - 1] * runner.waits[i + 1] =
                      runner.waits[i] * runner.waits[i]

\* C31: every heartbeat a tick dispatches while the detected auto-clicker
\* list is non-empty carries state SUSPICIOUS and score 0, whether the tick
\* classified the state as ACTIVE or as IDLE.
C31_DetectionOverridesClassification ==
    (op.name = "tick" /\ autoclicker_detected) =>
        \A h \in op.sent : h.s = "SUSPICIOUS" /\ h.sc = 0

\* C32: every step that takes on_user_active (awaiting_first_activity goes
\* from true to false) starts a Close worker for the current break episode,
\* also while the Close worker of an earlier episode is still running.
C32_UserActiveAlwaysDispatchesClose ==
    [][ (state.awaiting_first_activity /\ ~state'.awaiting_first_activity) =>
            /\ CloseThread(episode) \in threads'
            /\ calls'.closes = 1 ]_vars

\* C40: run_with_auto_restart stops only when main() returned, on
\* KeyboardInterrupt, or on a SystemExit whose string is "0"; a SystemExit
\* with any other code starts main() again at once, with no wait and the
\* crash counter as it was; any other exception leads to the wait and then to
\* another start of main(), however many crashes came before.
C40_StopsOnlyWhenAskedTo ==
    [][ /\ (runner'.pc = "stopped" /\ runner.pc # "stopped") =>
              runner'.last \in {"return", "KeyboardInterrupt", "SystemExit 0"}
        /\ (runner'.last = "SystemExit" /\ runner' # runner) =>
              /\ runner.pc = "main" /\ runner'.pc = "main"
              /\ runner'.crash_count = runner.crash_count
              /\ runner'.wait = runner.wait
        /\ (runner.pc = "main" /\ runner'.last = "Exception"
                /\ runner' # runner) =>
              runner'.pc = "sleep"
        /\ (runner.pc = "sleep" /\ runner' # runner) =>
              \/ runner'.pc = "main"
              \/ runner'.pc = "stopped" /\ runner'.last = "KeyboardInterrupt"
      ]_vars

\* main() was started again at once after a SystemExit with a code other
\* than 0, after ten crashes and more
C40_Witness ==
    /\ runner.pc = "main"
    /\ runner.last = "SystemExit"
    /\ runner.crash_count >= MAX_RAPID_CRASHES
    /\ runner.wait = LONG_WAIT

\* C36 (as stated): a tick that finds the classified state changed while a
\* heartbeat is in flight dispatches nothing and leaves last_heartbeat_state
\* as it was, and a tick that finds it changed with no heartbeat in flight
\* dispatches a heartbeat carrying the new classified state.
C36_DeferredChangeCarriesNewState ==
    [][ op'.name = "tick" =>
          /\ op'.in_flight =>
                /\ op'.sent = {}
                /\ state'.last_heartbeat_state = state.last_heartbeat_state
          /\ (op'.changed /\ ~op'.in_flight) =>
                \E h \in op'.sent : h.s = op'.current ]_vars

\* C36 (amended): the change is deferred, not lost: the tick in flight
\* dispatches nothing and does not touch last_heartbeat_state, and the first
\* tick that finds the state still changed with nothing in flight dispatches
\* exactly one heartbeat and records the new classification; that heartbeat
\* carries the new classification, or SUSPICIOUS instead of ACTIVE when an
\* auto-clicker is detected or the score is below 30.
C36_DeferredChangeIsDispatched ==
    [][ op'.name = "tick" =>
          /\ op'.in_flight =>
                /\ op'.sent = {}
                /\ state'.last_heartbeat_state = state.last_heartbeat_state
                /\ state'.last_heartbeat_time = state.last_heartbeat_time
          /\ (op'.changed /\ ~op'.in_flight) =>
                /\ Cardinality(op'.sent) = 1
                /\ \A h \in op'.sent : h.s = hb_state(op'.current, h.cheat, h.sc)
                /\ state'.last_heartbeat_state = op'.current ]_vars

\* the worker of the last heartbeat has just cleared heartbeat_in_flight, and
\* this tick, less than an interval after that heartbeat was dispatched,
\* sends the state that changed in the meantime
C36_Witness ==
    /\ op.name = "tick"
    /\ op.changed /\ ~op.in_flight /\ ~op.elapsed
    /\ \E w \in threads : w.kind = "heartbeat" /\ w.pc = "count"
    /\ \E h \in op.sent : h.s = op.current
    /\ state.last_heartbeat_state = op.current

\* C37: last_heartbeat_state holds the ACTIVE/IDLE classification of the
\* last dispatch, never the SUSPICIOUS that was sent in its place, so a tick
\* that dispatches while the classification is unchanged does so only because
\* a heartbeat interval has passed since the last dispatch.
C37_OverrideKeepsCadence ==
    /\ state.last_heartbeat_state \in {"", "ACTIVE", "IDLE"}
    /\ (op.name = "tick" /\ op.sent # {}) =>
          /\ state.last_heartbeat_state = op.current
          /\ ~op.changed => op.elapsed

\* a tick under the override, nothing in flight, the same classification as
\* at the last dispatch and the interval not over: no heartbeat
C37_Witness ==
    /\ op.name = "tick"
    /\ autoclicker_detected
    /\ op.current = "ACTIVE"
    /\ ~op.changed /\ ~op.elapsed /\ ~op.in_flight
    /\ op.sent = {}

\* C38: a tick in which the system-idle supplement fires (the OS reports an
\* idle time more than 5 s below idle_seconds, no popup visible) resets the
\* idle timer and nothing else of the break: awaiting_first_activity is as it
\* was, popup_allowed is not restored, break_active is not cleared and no
\* Close call is dispatched; a break that awaits its confirming activity
\* stays open.
C38_SupplementOnlyResetsIdleTimer ==
    [][ (op'.name = "tick" /\ op'.supplemented) =>
          /\ idle_seconds(state') = 0
          /\ state'.awaiting_first_activity = state.awaiting_first_activity
          /\ state'.popup_allowed => state.popup_allowed
          /\ state.break_active => state'.break_active
          /\ break_end_in_flight' = break_end_in_flight
          /\ {w \in threads' : w.kind = "break_end"} =
                {w \in threads : w.kind = "break_end"} ]_vars

\* the supplement fired in a tick while the break was awaiting its confirming
\* activity, and the break is still open
C38_Witness ==
    /\ op.name = "tick"
    /\ op.supplemented
    /\ state.awaiting_first_activity
    /\ state.break_active
    /\ ~state.popup_allowed
    /\ calls.closes = 0

offline_calls(e) ==
    LET mine(x) == x[2] = e
        l == SelectSeq(link.log, mine)
    IN  [i \in 1..Len(l) |-> l[i][1]]

\* C33: each offline episode, from mark_offline to the next mark_online, has
\* exactly one offline-break Open dispatched, however many connectivity
\* checks run while the agent stays offline; the reconnect brings exactly one
\* Annotate followed by one Close, in that order.
C33_OneOfflineBreakPerEpisode ==
    /\ \A i \in 1..Len(link.log) : link.log[i][2] \in 1..link.episodes
    /\ (link.episodes = 0) => state.online
    /\ \A e \in 1..link.episodes :
          LET over == e < link.episodes \/ state.online
          IN  IF over /\ EndOfflineThread(e) \notin threads
              THEN offline_calls(e) = <<"open", "annotate", "close">>
              ELSE offline_calls(e) = <<"open">>

\* two episodes are over and both breaks are closed, and the last check
\* found the agent offline and brought it back
C33_Witness ==
    /\ link.episodes = MaxOffline
    /\ state.online
    /\ Len(link.log) = 3 * MaxOffline
    /\ offline_workers(threads) = {}

\* C39: the agent goes offline only at a connectivity check that finds at
\* least two heartbeat failures in a row while online and whose socket probe
\* fails; a probe that succeeds in that branch resets the failure counter to
\* 0 and the agent stays online; mark_offline on an agent that is already
\* offline changes nothing.
C39_OfflineOnlyAfterTwoFailuresAndProbe ==
    /\ [](~state.online => mark_offline(state) = state)
    /\ [][(state.online /\ ~state'.online) =>
             /\ op'.name = "check"
             /\ state.consecutive_hb_failures >= 2
             /\ op'.first = "down"
             /\ state'.offline_since = 0
             /\ state'.offline_break_started]_vars
    /\ [][(state.online /\ op'.name = "check" /\ op'.first # "down") =>
             /\ op'.first = "up"
             /\ state.consecutive_hb_failures >= 2
             /\ state'.online
             /\ state'.consecutive_hb_failures = 0
             /\ link' = link]_vars
    /\ [][(op'.name = "check" /\ op'.first = "not made") =>
             ~state.online]_vars

\* the agent has gone offline a second time, and a later check found it
\* still offline
C39_Witness ==
    /\ ~state.online
    /\ link.episodes = MaxOffline
    /\ op.name = "check"
    /\ op.first = "not made"
    /\ op.second = "down"
    /\ state.offline_break_started

\* the break calls recover_downtime made, without the save
break_calls_made ==
    LET is_break(x) == x[1] # "save_alive_ts"
        l == SelectSeq(recovery.made, is_break)
    IN  [i \in 1..Len(l) |-> l[i][1]]

\* C35: recover_downtime sends Annotate and Close only after Open returned
\* success, in the order Open, Annotate, Close; when Open fails neither is
\* sent; it sends no break call when there is no stored alive timestamp, when
\* the gap is below 300 s, or when the last alive time is at or after the
\* shift end plus grace; and in every case saving the alive timestamp is the
\* last thing it does.
C35_RecoveryBreakOrder ==
    recovery.pc = "done" =>
        /\ break_calls_made \in {<<>>, <<"open">>, <<"open", "annotate", "close">>}
        /\ (Len(break_calls_made) = 3) <=> (Len(break_calls_made) > 0 /\ recovery.ok)
        /\ recovery.last_alive = None => break_calls_made = <<>>
        /\ recovery.gap < 300 => break_calls_made = <<>>
        /\ ( /\ recovery.last_alive # None
             /\ clip(recovery.last_alive[1], recovery.shift_info).clipped
             /\ recovery.last_alive[1] >=
                    clip(recovery.last_alive[1], recovery.shift_info).grace_end )
               => break_calls_made = <<>>
        /\ ( /\ recovery.last_alive # None
             /\ recovery.shift_info =
                    <<[shiftStart |-> hhmm(9, 0), shiftEnd |-> hhmm(18, 0),
                       crossesMidnight |-> FALSE]>>
             /\ recovery.last_alive[1] >= at(18, 20, 0) )
               => break_calls_made = <<>>
        /\ recovery.made[Len(recovery.made)][1] = "save_alive_ts"
        /\ Len(recovery.made) = Len(break_calls_made) + 1

\* a night shift, the machine went down at 23:00 for two hours, Open was
\* accepted, and the break was recorded and closed
C35_Witness ==
    /\ recovery.pc = "done"
    /\ recovery.last_alive = <<at(23, 0, 0)>>
    /\ recovery.shift_info # None
    /\ recovery.shift_info[1].crossesMidnight
    /\ recovery.ok
    /\ break_calls_made = <<"open", "annotate", "close">>
    /\ Len(buffer) = 1

====
